---- MODULE Spec2Model ----
(***************************************************************************)
(* A model of the core of dhm (Dependency Health Monitor):                 *)
(*   - PackageIdentifier (core/models.py): equality, hash, normalized_name *)
(*   - DependencyResolver._deduplicate (core/resolver.py)                  *)
(*   - RequirementsTxtSource.parse / DependencyResolver.resolve            *)
(*   - HealthCalculator (core/calculator.py)                               *)
(*   - Vulnerability / DependencyReport dict forms (core/models.py)        *)
(*   - PyProjectTomlSource.parse on Poetry tables (core/resolver.py)       *)
(*   - ReportGenerator.generate_reports (reports/generator.py)             *)
(*                                                                         *)
(* Strings whose characters matter (package names) are sequences of        *)
(* one-character strings.  Scores are fixed-point numbers in thousandths   *)
(* of a point (MILLI per point); weights are integers in hundredths.       *)
(***************************************************************************)
EXTENDS Integers, Sequences, FiniteSets, TLC

VARIABLES
    deps,      \* resolve: `dependencies`; _deduplicate: the list `packages` consumed so far
    seen,      \* _deduplicate: the dict `seen`, in insertion order, as <<[key, pkg], ...>>
    result,    \* the list returned by resolve / _deduplicate (once pc = "done")
    pc,        \* position of the running operation
    fs,        \* the project directory: file name -> [status, lines] (<<>> when unused)
    target,    \* resolve: the project_path argument (a file name or Dir)
    files,     \* resolve: the files still to parse, in discovery order
    stack,     \* the interpreter's stack of RequirementsTxtSource.parse frames
    exc,       \* the exception in flight or raised to the caller, or None
    weights,   \* HealthCalculator.weights, <<w>>, or <<>> before construction
    pypi,      \* calculate: the PyPIMetadata argument, <<m>>, or <<>> for None
    repo,      \* calculate: the RepositoryMetadata argument, <<m>>, or <<>> for None
    vulns,     \* calculate: the vulnerabilities argument
    score,     \* the value returned by calculate or by the method called on its
               \* own, <<h>>, or <<>> before it returns
    args,      \* the arguments of the call that no other variable holds, or <<>>
    op,        \* the entry point of the resolver that was called, or None
    msg,       \* the message of the exception in `exc`, or None
    parsed,    \* the calls of a registered parser made by the entry point, <<[source, file], ...>>
    persisted, \* the dicts written by Vulnerability.to_dict, or <<>>
    reloaded,  \* the vulnerabilities rebuilt by Vulnerability.from_dict, or <<>>
    exported,  \* the dict returned by DependencyReport.to_dict, <<d>>, or <<>>
    gathered,  \* generate_reports: the outcomes gathered from the tasks so far
    reports    \* the list returned by generate_reports, <<l>>, or <<>>

vars == <<deps, seen, result, pc, fs, target, files, stack, exc,
          weights, pypi, repo, vulns, score, args,
          op, msg, parsed, persisted, reloaded, exported, gathered, reports>>

resolverVars == <<fs, target, files, stack, exc>>
calcVars == <<weights, pypi, repo, vulns, score, args>>
callVars == <<op, msg, parsed>>
ioVars == <<persisted, reloaded, exported, gathered, reports>>

None == "None"

Range(s) == {s[k] : k \in 1..Len(s)}

\* All orders in which the elements of a finite set can be listed.
Orderings(S) == {q \in [1..Cardinality(S) -> S] : Range(q) = S}

(***************************************************************************)
(* PackageIdentifier                                                       *)
(***************************************************************************)

\* Longest list handed to _deduplicate.
MaxPkgs == 3

\* str.lower() on the characters package names are drawn from.
LowerChar(c) ==
    CASE c = "Z" -> "z"
      [] c = "I" -> "i"
      [] c = "P" -> "p"
      [] OTHER -> c

Lower(name) == [k \in 1..Len(name) |-> LowerChar(name[k])]

\* str.replace(old, new) for one-character old and new.
ReplaceChar(name, old, new) ==
    [k \in 1..Len(name) |-> IF name[k] = old THEN new ELSE name[k]]

\* Python truthiness of an optional string (None and "" are falsy).
Truthy(v) == v # None /\ v # ""

\* Python truthiness of a tuple or list.
NonEmpty(t) == Len(t) > 0

\* PackageIdentifier.normalized_name
NormalizedName(name) == ReplaceChar(Lower(name), "_", "-")

IsSeparator(c) == c \in {"-", "_", "."}

\* validate_package_name's normalization: re.sub(r"[-_.]+", "-", name.lower())
RECURSIVE CollapseSeparators(_)
CollapseSeparators(name) ==
    IF name = <<>> THEN <<>>
    ELSE IF IsSeparator(Head(name))
         THEN IF Len(name) > 1 /\ IsSeparator(name[2])
              THEN CollapseSeparators(Tail(name))
              ELSE <<"-">> \o CollapseSeparators(Tail(name))
         ELSE <<Head(name)>> \o CollapseSeparators(Tail(name))

Pep503Normalize(name) == CollapseSeparators(Lower(name))

\* A mutant of PkgHash: the name is hashed as spelled.
PkgHashExact(p) == <<p.name, p.version, p.extras>>

\* PackageIdentifier.__hash__: hash() of this tuple; equal tuples hash equally.
PkgHash(p) == <<Lower(p.name), p.version, p.extras>>

\* PackageIdentifier.__eq__
PkgEq(a, b) ==
    /\ Lower(a.name) = Lower(b.name)
    /\ a.version = b.version
    /\ a.extras = b.extras

\* set(seq): an element is added unless an equal one with the same hash is there.
RECURSIVE PySet(_)
PySet(s) ==
    IF s = <<>> THEN {}
    ELSE LET rest == PySet(SubSeq(s, 1, Len(s) - 1))
             p == s[Len(s)]
         IN IF \E q \in rest : PkgHash(q) = PkgHash(p) /\ PkgEq(q, p)
            THEN rest
            ELSE rest \cup {p}

Names == {<<"z", "_", "i">>, <<"Z", "_", "i">>, <<"z", ".", "i">>}
Versions == {None, "1.0", "2.0"}
ExtrasTuples == {<<>>, <<"security">>, <<"socks">>}

PackageIds == [name : Names, version : Versions, extras : ExtrasTuples]

(***************************************************************************)
(* DependencyResolver._deduplicate                                         *)
(***************************************************************************)

SeenKeys(s) == {s[k].key : k \in 1..Len(s)}
SeenIndex(s, key) == CHOOSE k \in 1..Len(s) : s[k].key = key

\* resolver.py 426-428: "Prefer the one with a version specified"
PreferVersioned(existing, pkg) ==
    IF Truthy(pkg.version) /\ ~Truthy(existing.version) THEN pkg ELSE existing

\* The orders tuple(set(existing.extras) | set(pkg.extras)) can come out in.
MergedExtrasOrders(existing, pkg) ==
    Orderings(Range(existing.extras) \cup Range(pkg.extras))

\* A mutant of MergeExtras: only the new package's extras are kept.
MergeExtrasNewOnly(existing, pkg, stored, ord) ==
    IF NonEmpty(pkg.extras) \/ NonEmpty(existing.extras)
    THEN [name |-> existing.name,
          version |-> IF Truthy(existing.version) THEN existing.version ELSE pkg.version,
          extras |-> pkg.extras]
    ELSE stored

\* A mutant of MergeExtras: the merged entry takes the new package's version.
MergeExtrasNewVersion(existing, pkg, stored, ord) ==
    IF NonEmpty(pkg.extras) \/ NonEmpty(existing.extras)
    THEN [name |-> existing.name,
          version |-> IF Truthy(pkg.version) THEN pkg.version ELSE existing.version,
          extras |-> ord]
    ELSE stored

\* resolver.py 429-436: "Merge extras"; `stored` is seen[key] after lines 426-428.
MergeExtras(existing, pkg, stored, ord) ==
    IF NonEmpty(pkg.extras) \/ NonEmpty(existing.extras)
    THEN [name |-> existing.name,
          version |-> IF Truthy(existing.version) THEN existing.version ELSE pkg.version,
          extras |-> ord]
    ELSE stored

\* A mutant of DedupKey: duplicates are recognised by the exact spelling only.
DedupKeyExact(pkg) == pkg.name

\* resolver.py 420: key = pkg.normalized_name
DedupKey(pkg) == NormalizedName(pkg.name)

\* One iteration of the loop of _deduplicate over `pkg`.
DedupMerge(s, pkg, ord) ==
    LET key == DedupKey(pkg) IN
    IF key \notin SeenKeys(s)
    THEN Append(s, [key |-> key, pkg |-> pkg])
    ELSE LET k == SeenIndex(s, key)
             existing == s[k].pkg
         IN [s EXCEPT ![k].pkg =
                MergeExtras(existing, pkg, PreferVersioned(existing, pkg), ord)]

\* list(seen.values())
SeenValues(s) == [k \in 1..Len(s) |-> s[k].pkg]

IdleResolver ==
    /\ fs = <<>> /\ target = None /\ files = <<>>
    /\ stack = <<>> /\ exc = None
    /\ op = None /\ msg = None /\ parsed = <<>>

IdleIO ==
    /\ persisted = <<>> /\ reloaded = <<>> /\ exported = <<>>
    /\ gathered = <<>> /\ reports = <<>>

IdleCalc ==
    /\ weights = <<>> /\ pypi = <<>> /\ repo = <<>> /\ vulns = <<>> /\ score = <<>>
    /\ args = <<>>

InitDedup ==
    /\ deps = <<>> /\ seen = <<>> /\ result = <<>> /\ pc = "dedup"
    /\ IdleResolver /\ IdleCalc /\ IdleIO

\* The loop body of _deduplicate on the next element of `packages`.
DedupFeed ==
    /\ pc = "dedup"
    /\ Len(deps) < MaxPkgs
    /\ \E pkg \in PackageIds :
         /\ deps' = Append(deps, pkg)
         /\ \E ord \in (IF DedupKey(pkg) \in SeenKeys(seen)
                        THEN MergedExtrasOrders(seen[SeenIndex(seen, DedupKey(pkg))].pkg, pkg)
                        ELSE {<<>>}) :
              seen' = DedupMerge(seen, pkg, ord)
    /\ UNCHANGED <<result, pc, resolverVars, calcVars, callVars, ioVars>>

\* The end of `packages`: return list(seen.values()).
DedupReturn ==
    /\ pc = "dedup"
    /\ result' = SeenValues(seen)
    /\ pc' = "done"
    /\ UNCHANGED <<deps, seen, resolverVars, calcVars, callVars, ioVars>>

NextDedup == DedupFeed \/ DedupReturn

SpecDedup == InitDedup /\ [][NextDedup]_vars

(***************************************************************************)
(* PackageIdentifier values as the program constructs them                 *)
(***************************************************************************)

\* Most identifiers alive at once.
MaxIds == 3

IdentIds ==
    [name : Names, version : {None, "1.0"},
     extras : {<<>>, <<"security", "socks">>, <<"socks", "security">>}]

InitIdent ==
    /\ deps = <<>> /\ seen = <<>> /\ result = <<>> /\ pc = "ident"
    /\ IdleResolver /\ IdleCalc /\ IdleIO

\* PackageIdentifier(name, version, extras): one more identifier in the pool `deps`.
NewIdentifier ==
    /\ pc = "ident"
    /\ Len(deps) < MaxIds
    /\ \E p \in IdentIds : deps' = Append(deps, p)
    /\ UNCHANGED <<seen, result, pc, resolverVars, calcVars, callVars, ioVars>>

NextIdent == NewIdentifier

SpecIdent == InitIdent /\ [][NextIdent]_vars

(***************************************************************************)
(* RequirementsTxtSource.parse, PyProjectTomlSource.parse and              *)
(* DependencyResolver.resolve over a project directory                     *)
(***************************************************************************)

\* Nested parse calls the interpreter allows before it raises RecursionError
\* (sys.getrecursionlimit() frames in CPython; scaled down, and above the
\* number of files so that only a cyclic include graph can reach it).
RecursionLimit == 8

PyProject == "pyproject.toml"
Req == "requirements.txt"
ReqDev == "requirements-dev.txt"
Missing == "missing.txt"
Dir == "."
\* A requirements file of another project, reached by a relative path that
\* leaves the project directory.
Outside == "../outside/requirements.txt"
\* A file of the project directory that no registered parser claims.
Unclaimed == "setup.py"

ReqFiles == {Req, ReqDev}
FileNames == {PyProject, Req, ReqDev}

\* PyProjectTomlSource.can_parse
PyProjectCanParse(f) == f = PyProject

\* RequirementsTxtSource.can_parse
RequirementsCanParse(f) == f \in ReqFiles \cup {Missing, Outside}

\* A mutant of FirstParser: the requirements parser claims every path.
FirstParserClaimsAll(f) ==
    IF PyProjectCanParse(f) THEN "pyproject" ELSE "requirements"

\* resolve 331-334, resolve_file 363-365: the first source of self.sources
\* (PyProjectTomlSource, RequirementsTxtSource) whose can_parse accepts the path
FirstParser(f) ==
    IF PyProjectCanParse(f) THEN "pyproject"
    ELSE IF RequirementsCanParse(f) THEN "requirements"
    ELSE None

\* path.exists() / path.is_file()
Exists(f) == f \in DOMAIN fs /\ fs[f].status # "absent"

\* DependencyResolver._find_dependency_files: the priority names that exist, in
\* priority order (the glob requirements*.txt adds no file not listed already).
FindDependencyFiles ==
    SelectSeq(<<PyProject, Req, ReqDev>>, Exists)

PkgA == [name |-> <<"z", "_", "i">>, version |-> None, extras |-> <<>>]
PkgB == [name |-> <<"z", ".", "i">>, version |-> "1.0", extras |-> <<>>]
PkgC == [name |-> <<"Z", "_", "i">>, version |-> "2.0", extras |-> <<"security">>]
\* The requirement of the file outside the project directory.
PkgD == [name |-> <<"o">>, version |-> "6.6", extras |-> <<>>]

ReqLine(p) == [kind |-> "req", pkg |-> p, path |-> None]
IncludeLine(f) == [kind |-> "include", pkg |-> PkgA, path |-> f]

\* The lines a requirements file can hold: requirement lines and `-r` lines.
LineItems ==
    {ReqLine(PkgA), ReqLine(PkgB), IncludeLine(Req), IncludeLine(ReqDev), IncludeLine(Missing)}

ReqContents ==
    {<<>>} \cup {<<a>> : a \in LineItems} \cup {<<a, b>> : a, b \in LineItems}
    \cup {<<IncludeLine(Outside)>>, <<IncludeLine(Outside), ReqLine(PkgA)>>,
          <<IncludeLine(Outside), IncludeLine(ReqDev)>>}

\* The files that are not described by the choice of Init: the one outside the
\* project directory and the one no parser claims, both readable.
FixedFiles ==
    [f \in {Outside, Unclaimed} |->
        [status |-> "ok", lines |-> IF f = Outside THEN <<ReqLine(PkgD)>> ELSE <<>>]]

ReqFileStates ==
    {[status |-> "absent", lines |-> <<>>],
     [status |-> "unreadable", lines |-> <<>>],
     [status |-> "undecodable", lines |-> <<>>]}
    \cup {[status |-> "ok", lines |-> c] : c \in ReqContents}

\* pyproject.toml: its [project] dependencies, or a file that cannot be parsed.
PyProjectStates ==
    {[status |-> "absent", lines |-> <<>>],
     [status |-> "unreadable", lines |-> <<>>],
     [status |-> "undecodable", lines |-> <<>>],
     [status |-> "malformed", lines |-> <<>>],
     [status |-> "ok", lines |-> <<ReqLine(PkgC)>>]}

\* resolver.py 89-115: the packages of the file's own requirement lines
OwnPackages(lines) ==
    LET reqs == SelectSeq(lines, LAMBDA l : l.kind = "req")
    IN [k \in 1..Len(reqs) |-> reqs[k].pkg]

\* A mutant of IncludedFiles: the included files in reverse line order.
IncludedFilesReversed(lines) ==
    LET incs == SelectSeq(lines, LAMBDA l : l.kind = "include" /\ Exists(l.path))
    IN [k \in 1..Len(incs) |-> incs[Len(incs) + 1 - k].path]

\* resolver.py 97-102: the included files that exist, in line order
IncludedFiles(lines) ==
    LET incs == SelectSeq(lines, LAMBDA l : l.kind = "include" /\ Exists(l.path))
    IN [k \in 1..Len(incs) |-> incs[k].path]

\* The state of a file; a path that names no file reads as absent.
FileStatus(f) == IF f \in DOMAIN fs THEN fs[f].status ELSE "absent"

\* What reading and decoding a file raises, or None (resolver.py 81-84, 175-181).
ReadError(f) ==
    CASE FileStatus(f) \in {"unreadable", "absent"} -> "ParsingError"
      [] FileStatus(f) = "undecodable" -> "UnicodeDecodeError"
      [] FileStatus(f) = "malformed" -> "ParsingError"
      [] OTHER -> None

\* The message of that exception
ReadErrorMsg(f) ==
    CASE FileStatus(f) \in {"unreadable", "absent"} -> "Failed to read file"
      [] FileStatus(f) = "undecodable" -> "codec can't decode"
      [] FileStatus(f) = "malformed" -> "Invalid TOML"
      [] OTHER -> None

\* Every list _deduplicate can return for `pkgs`, as the dict `seen`.
RECURSIVE DedupStates(_)
DedupStates(pkgs) ==
    IF pkgs = <<>> THEN {<<>>}
    ELSE LET pkg == pkgs[Len(pkgs)] IN
         UNION {{DedupMerge(s, pkg, ord) :
                    ord \in (IF DedupKey(pkg) \in SeenKeys(s)
                             THEN MergedExtrasOrders(s[SeenIndex(s, DedupKey(pkg))].pkg, pkg)
                             ELSE {<<>>})} :
                s \in DedupStates(SubSeq(pkgs, 1, Len(pkgs) - 1))}

InitResolve ==
    /\ deps = <<>> /\ seen = <<>> /\ result = <<>> /\ pc = "start"
    /\ fs \in {[f \in FileNames \cup DOMAIN FixedFiles |->
                    IF f = PyProject THEN pp ELSE IF f = Req THEN r
                    ELSE IF f = ReqDev THEN rd ELSE FixedFiles[f]] :
                 pp \in PyProjectStates, r \in ReqFileStates, rd \in ReqFileStates}
    /\ target \in FileNames \cup {Dir, Unclaimed}
    /\ files = <<>> /\ stack = <<>> /\ exc = None
    /\ op \in {"resolve", "resolve_file"} /\ msg = None /\ parsed = <<>>
    /\ IdleCalc /\ IdleIO

\* resolve, lines 329-339: a single file goes to the first parser that claims
\* it; anything else is searched as a directory.
ResolveStart ==
    /\ pc = "start" /\ op = "resolve"
    /\ files' = IF target # Dir /\ Exists(target)
                THEN IF FirstParser(target) # None THEN <<target>> ELSE <<>>
                ELSE IF target = Dir THEN FindDependencyFiles ELSE <<>>
    /\ pc' = "loop"
    /\ UNCHANGED <<deps, seen, result, fs, target, stack, exc, calcVars, callVars, ioVars>>

\* PyProjectTomlSource.parse(file) called from resolve
ParsePyProject ==
    /\ pc = "loop" /\ exc = None /\ stack = <<>>
    /\ files # <<>> /\ FirstParser(Head(files)) = "pyproject"
    /\ IF ReadError(Head(files)) = None
       THEN /\ deps' = deps \o OwnPackages(fs[Head(files)].lines)
            /\ files' = Tail(files)
            /\ exc' = None /\ msg' = None
       ELSE /\ exc' = ReadError(Head(files))
            /\ msg' = ReadErrorMsg(Head(files))
            /\ UNCHANGED <<deps, files>>
    /\ parsed' = Append(parsed, [source |-> "pyproject", file |-> Head(files)])
    /\ UNCHANGED <<seen, result, pc, fs, target, stack, calcVars, op, ioVars>>

\* The file the next call of RequirementsTxtSource.parse is for: the file
\* resolve is at, or the next included file of the running parse.
NextParse ==
    IF stack = <<>>
    THEN IF files # <<>> /\ FirstParser(Head(files)) = "requirements"
         THEN Head(files) ELSE None
    ELSE LET top == stack[Len(stack)] IN
         IF top.next <= Len(top.included) THEN top.included[top.next] ELSE None

\* RequirementsTxtSource.parse(file), lines 81-115: the call, the read and the
\* scan of the lines.  A call beyond the interpreter's limit raises RecursionError.
ParseCall ==
    /\ pc = "loop" /\ exc = None
    /\ NextParse # None
    /\ IF Len(stack) >= RecursionLimit
       THEN /\ exc' = "RecursionError" /\ stack' = stack
            /\ msg' = "maximum recursion depth exceeded"
       ELSE IF ReadError(NextParse) # None
       THEN /\ exc' = ReadError(NextParse) /\ stack' = stack
            /\ msg' = ReadErrorMsg(NextParse)
       ELSE /\ exc' = None /\ msg' = None
            /\ stack' = Append(stack,
                   [file |-> NextParse,
                    packages |-> OwnPackages(fs[NextParse].lines),
                    included |-> IncludedFiles(fs[NextParse].lines),
                    next |-> 1])
    /\ parsed' = IF stack = <<>>
                 THEN Append(parsed, [source |-> "requirements", file |-> NextParse])
                 ELSE parsed
    /\ UNCHANGED <<deps, seen, result, pc, fs, target, files, calcVars, op, ioVars>>

\* RequirementsTxtSource.parse, line 125 back to line 120 of the caller (or to
\* line 335/343 of resolve): the packages are appended to the caller's list.
ParseReturn ==
    /\ pc = "loop" /\ exc = None
    /\ stack # <<>> /\ NextParse = None
    /\ LET top == stack[Len(stack)]
           rest == SubSeq(stack, 1, Len(stack) - 1)
       IN IF rest = <<>>
          THEN /\ deps' = deps \o top.packages
               /\ files' = Tail(files)
               /\ stack' = rest
          ELSE /\ stack' = [rest EXCEPT ![Len(rest)].packages = @ \o top.packages,
                                        ![Len(rest)].next = @ + 1]
               /\ UNCHANGED <<deps, files>>
    /\ UNCHANGED <<seen, result, pc, fs, target, exc, calcVars, callVars, ioVars>>

\* An exception reaches a frame of parse (lines 119-123): ParsingError is
\* swallowed and the loop goes on; anything else leaves the frame.
ParseHandle ==
    /\ pc = "loop" /\ exc # None /\ stack # <<>>
    /\ IF exc = "ParsingError"
       THEN /\ stack' = [stack EXCEPT ![Len(stack)].next = @ + 1]
            /\ exc' = None /\ msg' = None
       ELSE /\ stack' = SubSeq(stack, 1, Len(stack) - 1)
            /\ exc' = exc /\ msg' = msg
    /\ UNCHANGED <<deps, seen, result, pc, fs, target, files, calcVars, op, parsed, ioVars>>

\* A mutant of Swallows: ParsingError is swallowed for a single file too.
SwallowsAlways(o, t, e) == o = "resolve" /\ e = "ParsingError"

\* resolve 342-346: the try/except ParsingError around parse exists in the
\* directory branch of resolve alone.
Swallows(o, t, e) == o = "resolve" /\ t = Dir /\ e = "ParsingError"

\* An exception reaches resolve or resolve_file: in the directory loop of
\* resolve ParsingError is swallowed (lines 342-346); every other case raises
\* to the caller.
ResolveHandle ==
    /\ pc = "loop" /\ exc # None /\ stack = <<>>
    /\ IF Swallows(op, target, exc)
       THEN /\ files' = Tail(files)
            /\ exc' = None /\ msg' = None
            /\ pc' = pc
       ELSE /\ pc' = "raised"
            /\ UNCHANGED <<files, exc, msg>>
    /\ UNCHANGED <<deps, seen, result, fs, target, stack, calcVars, op, parsed, ioVars>>

\* resolve, line 349: return self._deduplicate(dependencies)
ResolveReturn ==
    /\ pc = "loop" /\ op = "resolve" /\ exc = None /\ stack = <<>> /\ files = <<>>
    /\ \E s \in DedupStates(deps) :
         /\ seen' = s
         /\ result' = SeenValues(s)
    /\ pc' = "done"
    /\ UNCHANGED <<deps, fs, target, files, stack, exc, calcVars, callVars, ioVars>>

\* resolve_file, lines 363-370: the first parser that claims the path is
\* called; when none does, ParsingError is raised.
ResolveFileStart ==
    /\ pc = "start" /\ op = "resolve_file"
    /\ IF FirstParser(target) # None
       THEN /\ files' = <<target>>
            /\ pc' = "loop"
            /\ UNCHANGED <<exc, msg>>
       ELSE /\ exc' = "ParsingError"
            /\ msg' = "No suitable parser found for this file type."
            /\ pc' = "raised"
            /\ UNCHANGED files
    /\ UNCHANGED <<deps, seen, result, fs, target, stack, calcVars, op, parsed, ioVars>>

\* resolve_file, line 365: return source.parse(file_path)
ResolveFileReturn ==
    /\ pc = "loop" /\ op = "resolve_file" /\ exc = None /\ stack = <<>> /\ files = <<>>
    /\ result' = deps
    /\ pc' = "done"
    /\ UNCHANGED <<deps, seen, fs, target, files, stack, exc, calcVars, callVars, ioVars>>

NextResolve ==
    \/ ResolveStart
    \/ ResolveFileStart
    \/ ResolveFileReturn
    \/ ParsePyProject
    \/ ParseCall
    \/ ParseReturn
    \/ ParseHandle
    \/ ResolveHandle
    \/ ResolveReturn

SpecResolve == InitResolve /\ [][NextResolve]_vars

(***************************************************************************)
(* HealthCalculator                                                        *)
(*                                                                         *)
(* A score is an integer number of thousandths of a point.  Rates in       *)
(* [0, 1] and commits per day are in thousandths, weights in hundredths.   *)
(* The overall score is kept as the exact fraction overall_num/overall_den *)
(* so that no rounding enters the weighted sum.                            *)
(***************************************************************************)

\* Units of a score per point.
MILLI == 1000

\* Longest vulnerability list handed to _calculate_security_score.
MaxVulns == 3

WeightKeys == {"security", "maintenance", "community", "popularity"}

\* HealthCalculator.WEIGHTS, in hundredths
DefaultWeights ==
    [k \in WeightKeys |->
        CASE k = "security" -> 35
          [] k = "maintenance" -> 30
          [] k = "community" -> 20
          [] k = "popularity" -> 15]

RECURSIVE SumOver(_, _)
SumOver(f, S) ==
    IF S = {} THEN 0
    ELSE LET k == CHOOSE x \in S : TRUE IN f[k] + SumOver(f, S \ {k})

\* {**self.WEIGHTS} followed by self.weights.update(weights)
UpdatedWeights(override) ==
    [k \in WeightKeys \cup DOMAIN override |->
        IF k \in DOMAIN override THEN override[k] ELSE DefaultWeights[k]]

\* HealthCalculator.__init__: weight k is w[k]/den; the weights are divided by
\* their total only when it is positive, else left as given (hundredths).
NormalizedWeights(override) ==
    LET w == UpdatedWeights(override)
        total == SumOver(w, DOMAIN w)
    IN [w |-> w, den |-> IF total > 0 THEN total ELSE 100]

Max(a, b) == IF a >= b THEN a ELSE b
Min(a, b) == IF a <= b THEN a ELSE b

\* min(100.0, max(0.0, score))
Clamp(x) == Min(100 * MILLI, Max(0, x))

\* math.log10, in thousandths, on the magnitudes the samples use.
Log10Milli(v) ==
    CASE v = 1 -> 0
      [] v = 2 -> 301
      [] v = 3 -> 477
      [] v = 4 -> 602
      [] v = 5 -> 699
      [] v = 6 -> 778
      [] v = 7 -> 845
      [] v = 8 -> 903
      [] v = 9 -> 954
      [] v = 10 -> 1000
      [] v = 14 -> 1146
      [] v = 100 -> 2000
      [] v = 200 -> 2301
      [] v = 500 -> 2699
      [] v = 1000 -> 3000
      [] v = 5000 -> 3699
      [] v = 50000 -> 4699
      [] v = 50000000 -> 7699

\* _log_normalize: the exception raised by math.log10 (a non-positive
\* argument) or by the division (log_max = log_min), or None.
LogNormalizeRaises(value, min_val, max_val) ==
    IF value <= min_val THEN None
    ELSE IF value >= max_val THEN None
    ELSE IF max_val <= 0 THEN "ValueError"
    ELSE IF Log10Milli(max_val) = Log10Milli(Max(min_val, 1)) THEN "ZeroDivisionError"
    ELSE None

\* _linear_normalize: the division is reached only with max_val > min_val.
LinearNormalizeRaises(value, min_val, max_val) ==
    IF value <= min_val THEN None
    ELSE IF value >= max_val THEN None
    ELSE IF max_val = min_val THEN "ZeroDivisionError"
    ELSE None

\* _log_normalize, for integer value, min_val and max_val; max_score in points.
LogNormalize(value, min_val, max_val, max_score) ==
    IF value <= min_val THEN 0
    ELSE IF value >= max_val THEN max_score * MILLI
    ELSE LET log_min == Log10Milli(Max(min_val, 1))
             log_max == Log10Milli(max_val)
             log_val == Log10Milli(Max(value, 1))
         IN ((log_val - log_min) * max_score * MILLI) \div (log_max - log_min)

\* _linear_normalize, for value, min_val and max_val in thousandths.
LinearNormalize(value, min_val, max_val, max_score) ==
    IF value <= min_val THEN 0
    ELSE IF value >= max_val THEN max_score * MILLI
    ELSE ((value - min_val) * max_score * MILLI) \div (max_val - min_val)

Severities == {"critical", "high", "medium", "low", "info"}

\* VULN_DEDUCTIONS.get(v.severity, 5), in points
VulnDeduction(severity) ==
    CASE severity = "critical" -> 40
      [] severity = "high" -> 25
      [] severity = "medium" -> 10
      [] severity = "low" -> 5
      [] severity = "info" -> 1
      [] OTHER -> 5

\* Vulnerability.is_open
IsOpen(v) == ~v.is_fixed_in_installed_version

RECURSIVE SumDeductions(_, _)
SumDeductions(vs, unit) ==
    IF vs = <<>> THEN 0
    ELSE VulnDeduction(Head(vs).severity) * unit + SumDeductions(Tail(vs), unit)

\* A mutant of SecurityScore: fixed vulnerabilities are deducted in full.
SecurityScoreFixedInFull(vs) ==
    IF vs = <<>> THEN 100 * MILLI
    ELSE Max(0, 100 * MILLI - SumDeductions(vs, MILLI))

\* HealthCalculator._calculate_security_score (0.1 of a point is MILLI \div 10)
SecurityScore(vs) ==
    IF vs = <<>> THEN 100 * MILLI
    ELSE LET open_vulns == SelectSeq(vs, IsOpen)
             fixed_vulns == SelectSeq(vs, LAMBDA v : v.is_fixed_in_installed_version)
             open_deduction == SumDeductions(open_vulns, MILLI)
             historical_deduction == SumDeductions(fixed_vulns, MILLI \div 10)
             total_deduction == open_deduction + historical_deduction
         IN Max(0, 100 * MILLI - total_deduction)

\* release_date is None
NoDate == -1

\* HealthCalculator._calculate_maintenance_score; release_age is (now - release_date).days
MaintenanceScore(p, r) ==
    LET base == 50 * MILLI
        fromPypi ==
            IF Len(p) > 0 /\ p[1].release_age # NoDate
            THEN LET d == p[1].release_age IN
                 (IF d < 30 THEN 20 * MILLI
                  ELSE IF d < 90 THEN 15 * MILLI
                  ELSE IF d < 180 THEN 10 * MILLI
                  ELSE IF d < 365 THEN 5 * MILLI
                  ELSE IF d > 730 THEN -10 * MILLI
                  ELSE 0)
                 + (IF p[1].total_releases > 10 THEN 10 * MILLI
                    ELSE IF p[1].total_releases > 5 THEN 5 * MILLI
                    ELSE 0)
                 + (IF p[1].is_deprecated THEN -20 * MILLI ELSE 0)
            ELSE 0
        fromRepo ==
            IF Len(r) > 0
            THEN (IF r[1].commit_frequency_30d > 1000 THEN 15 * MILLI
                  ELSE IF r[1].commit_frequency_30d > 100 THEN 10 * MILLI
                  ELSE IF r[1].commit_frequency_30d > 0 THEN 5 * MILLI
                  ELSE 0)
                 + (IF r[1].issue_close_rate_90d > 800 THEN 10 * MILLI
                    ELSE IF r[1].issue_close_rate_90d > 500 THEN 5 * MILLI
                    ELSE 0)
                 + (IF r[1].is_archived THEN -30 * MILLI ELSE 0)
            ELSE 0
    IN Clamp(base + fromPypi + fromRepo)

\* A mutant of CommunityScore: a missing repository scores 0, not the neutral 50.
CommunityScoreAbsentZero(r) ==
    IF Len(r) = 0 THEN 0
    ELSE Clamp(50 * MILLI
               + LogNormalize(r[1].contributors_count, 1, 200, 20)
               + (IF r[1].contributors_count <= 1 THEN -10 * MILLI ELSE 0)
               + LogNormalize(r[1].stars, 10, 50000, 20)
               + LogNormalize(r[1].forks, 1, 500, 10)
               + LinearNormalize(r[1].pr_merge_rate_90d, 0, 1000, 10)
               + (IF r[1].is_archived THEN -25 * MILLI ELSE 0))

\* HealthCalculator._calculate_community_score
CommunityScore(r) ==
    IF Len(r) = 0 THEN 50 * MILLI
    ELSE Clamp(50 * MILLI
               + LogNormalize(r[1].contributors_count, 1, 200, 20)
               + (IF r[1].contributors_count <= 1 THEN -10 * MILLI ELSE 0)
               + LogNormalize(r[1].stars, 10, 50000, 20)
               + LogNormalize(r[1].forks, 1, 500, 10)
               + LinearNormalize(r[1].pr_merge_rate_90d, 0, 1000, 10)
               + (IF r[1].is_archived THEN -25 * MILLI ELSE 0))

\* HealthCalculator._calculate_popularity_score
PopularityScore(p, r) ==
    Clamp(50 * MILLI
          + (IF Len(p) > 0
             THEN IF p[1].downloads_last_month = 0 THEN -5 * MILLI
                  ELSE LogNormalize(p[1].downloads_last_month, 100, 50000000, 40)
             ELSE 0)
          + (IF Len(r) > 0 THEN LogNormalize(r[1].watchers, 10, 5000, 10) ELSE 0))

\* HealthCalculator._calculate_quality_score
QualityScore(r) ==
    IF Len(r) = 0 THEN 50 * MILLI
    ELSE Clamp(50 * MILLI
               + (IF r[1].contributors_count > 5 THEN 15 * MILLI
                  ELSE IF r[1].contributors_count > 2 THEN 10 * MILLI
                  ELSE 0)
               + (IF r[1].pr_merge_rate_90d > 600 THEN 15 * MILLI
                  ELSE IF r[1].pr_merge_rate_90d > 300 THEN 10 * MILLI
                  ELSE 0)
               + (IF r[1].avg_issue_close_time_days < 7 THEN 10 * MILLI
                  ELSE IF r[1].avg_issue_close_time_days < 30 THEN 5 * MILLI
                  ELSE 0)
               + (IF ~r[1].is_fork THEN 10 * MILLI ELSE 0))

\* str.upper() on the letters license identifiers are written with.
UpperChar(c) ==
    CASE c = "a" -> "A"
      [] c = "b" -> "B"
      [] c = "c" -> "C"
      [] c = "d" -> "D"
      [] c = "e" -> "E"
      [] c = "f" -> "F"
      [] c = "g" -> "G"
      [] c = "h" -> "H"
      [] c = "i" -> "I"
      [] c = "j" -> "J"
      [] c = "k" -> "K"
      [] c = "l" -> "L"
      [] c = "m" -> "M"
      [] c = "n" -> "N"
      [] c = "o" -> "O"
      [] c = "p" -> "P"
      [] c = "q" -> "Q"
      [] c = "r" -> "R"
      [] c = "s" -> "S"
      [] c = "t" -> "T"
      [] c = "u" -> "U"
      [] c = "v" -> "V"
      [] c = "w" -> "W"
      [] c = "x" -> "X"
      [] c = "y" -> "Y"
      [] c = "z" -> "Z"
      [] OTHER -> c

Upper(s) == [k \in 1..Len(s) |-> UpperChar(s[k])]

\* `needle in haystack` for strings
Contains(haystack, needle) ==
    \E k \in 0..(Len(haystack) - Len(needle)) :
        SubSeq(haystack, k + 1, k + Len(needle)) = needle

LICENSE_PERMISSIVE ==
    {<<"M", "I", "T">>, <<"A", "p", "a", "c", "h", "e", "-", "2", ".", "0">>, <<"B", "S", "D", "-", "2", "-", "C", "l", "a", "u", "s", "e">>, <<"B", "S", "D", "-", "3", "-", "C", "l", "a", "u", "s", "e">>, <<"I", "S", "C">>, <<"U", "n", "l", "i", "c", "e", "n", "s", "e">>, <<"0", "B", "S", "D">>}

LICENSE_COPYLEFT ==
    {<<"G", "P", "L", "-", "2", ".", "0">>, <<"G", "P", "L", "-", "3", ".", "0">>, <<"L", "G", "P", "L", "-", "2", ".", "1">>, <<"L", "G", "P", "L", "-", "3", ".", "0">>, <<"A", "G", "P", "L", "-", "3", ".", "0">>, <<"M", "P", "L", "-", "2", ".", "0">>}

LICENSE_WEAK_COPYLEFT ==
    {<<"L", "G", "P", "L", "-", "2", ".", "1">>, <<"L", "G", "P", "L", "-", "3", ".", "0">>, <<"M", "P", "L", "-", "2", ".", "0">>}

\* license is None or ""
NoLicense == <<>>

\* lic.upper() for the license names of a category
UpperAll(category) == {Upper(lic) : lic \in category}

PermissiveUpper == UpperAll(LICENSE_PERMISSIVE)
WeakCopyleftUpper == UpperAll(LICENSE_WEAK_COPYLEFT)
CopyleftUpper == UpperAll(LICENSE_COPYLEFT)

\* A mutant of LicenseScore: strong copyleft is tested before weak copyleft.
LicenseScoreCopyleftFirst(p, r) ==
    LET license_id ==
            IF Len(r) > 0 /\ r[1].license # NoLicense THEN r[1].license
            ELSE IF Len(p) > 0 /\ p[1].license # NoLicense THEN p[1].license
            ELSE NoLicense
        normalized == ReplaceChar(ReplaceChar(Upper(license_id), " ", "-"), "_", "-")
    IN IF license_id = NoLicense THEN 30 * MILLI
       ELSE IF \E lic \in PermissiveUpper : Contains(normalized, lic) THEN 100 * MILLI
       ELSE IF \E lic \in CopyleftUpper : Contains(normalized, lic) THEN 60 * MILLI
       ELSE IF \E lic \in WeakCopyleftUpper : Contains(normalized, lic) THEN 75 * MILLI
       ELSE 50 * MILLI

\* HealthCalculator._calculate_license_score
LicenseScore(p, r) ==
    LET license_id ==
            IF Len(r) > 0 /\ r[1].license # NoLicense THEN r[1].license
            ELSE IF Len(p) > 0 /\ p[1].license # NoLicense THEN p[1].license
            ELSE NoLicense
        normalized == ReplaceChar(ReplaceChar(Upper(license_id), " ", "-"), "_", "-")
    IN IF license_id = NoLicense THEN 30 * MILLI
       ELSE IF \E lic \in PermissiveUpper : Contains(normalized, lic) THEN 100 * MILLI
       ELSE IF \E lic \in WeakCopyleftUpper : Contains(normalized, lic) THEN 75 * MILLI
       ELSE IF \E lic \in CopyleftUpper : Contains(normalized, lic) THEN 60 * MILLI
       ELSE 50 * MILLI

\* A mutant of ScoreToGrade: the thresholds are exclusive.
ScoreToGradeStrict(num, den) ==
    IF num > 85 * MILLI * den THEN "A"
    ELSE IF num > 75 * MILLI * den THEN "B"
    ELSE IF num > 65 * MILLI * den THEN "C"
    ELSE IF num > 55 * MILLI * den THEN "D"
    ELSE "F"

\* HealthCalculator._score_to_grade, for the score num/den with den > 0
ScoreToGrade(num, den) ==
    IF num >= 85 * MILLI * den THEN "A"
    ELSE IF num >= 75 * MILLI * den THEN "B"
    ELSE IF num >= 65 * MILLI * den THEN "C"
    ELSE IF num >= 55 * MILLI * den THEN "D"
    ELSE "F"

\* A mutant of DetermineConfidence: MEDIUM does not need registry metadata.
DetermineConfidenceAnySource(p, r) ==
    LET has_pypi == Len(p) > 0
        has_repo == Len(r) > 0
        has_downloads == Len(p) > 0 /\ p[1].downloads_last_month > 0
    IN IF has_pypi /\ has_repo /\ has_downloads THEN "high"
       ELSE IF has_repo \/ has_downloads THEN "medium"
       ELSE "low"

\* HealthCalculator._determine_confidence
DetermineConfidence(p, r) ==
    LET has_pypi == Len(p) > 0
        has_repo == Len(r) > 0
        has_downloads == Len(p) > 0 /\ p[1].downloads_last_month > 0
    IN IF has_pypi /\ has_repo /\ has_downloads THEN "high"
       ELSE IF has_pypi /\ (has_repo \/ has_downloads) THEN "medium"
       ELSE "low"

\* float("inf"), in days
Infinity == 1000000

\* A mutant of DetermineMaintenanceStatus: deprecation is tested before archival.
DetermineMaintenanceStatusDeprecatedFirst(p, r) ==
    IF Len(p) > 0 /\ p[1].is_deprecated THEN "deprecated"
    ELSE IF Len(r) > 0 /\ r[1].is_archived THEN "archived"
    ELSE LET days_since_release ==
                 IF Len(p) > 0 /\ p[1].release_age # NoDate
                 THEN p[1].release_age ELSE Infinity
             days_since_commit ==
                 IF Len(r) > 0 /\ r[1].last_commit_age # NoDate
                 THEN r[1].last_commit_age ELSE Infinity
             min_days == Min(days_since_release, days_since_commit)
         IN IF min_days < 90 THEN "active"
            ELSE IF min_days < 365 THEN "stable"
            ELSE IF min_days < 730 THEN "slow"
            ELSE IF min_days < 1095 THEN "minimal"
            ELSE "abandoned"

\* HealthCalculator._determine_maintenance_status; release_age and
\* last_commit_age are (now - date).days, NoDate when the date is None.
DetermineMaintenanceStatus(p, r) ==
    IF Len(r) > 0 /\ r[1].is_archived THEN "archived"
    ELSE IF Len(p) > 0 /\ p[1].is_deprecated THEN "deprecated"
    ELSE LET days_since_release ==
                 IF Len(p) > 0 /\ p[1].release_age # NoDate
                 THEN p[1].release_age ELSE Infinity
             days_since_commit ==
                 IF Len(r) > 0 /\ r[1].last_commit_age # NoDate
                 THEN r[1].last_commit_age ELSE Infinity
             min_days == Min(days_since_release, days_since_commit)
         IN IF min_days < 90 THEN "active"
            ELSE IF min_days < 365 THEN "stable"
            ELSE IF min_days < 730 THEN "slow"
            ELSE IF min_days < 1095 THEN "minimal"
            ELSE "abandoned"

\* A mutant of Overall: the code-quality score enters the weighted sum.
OverallWithQuality(wt, p, r, vs) ==
    SecurityScore(vs) * wt.w["security"]
    + MaintenanceScore(p, r) * wt.w["maintenance"]
    + CommunityScore(r) * wt.w["community"]
    + (PopularityScore(p, r) + QualityScore(r)) * wt.w["popularity"]

\* HealthCalculator.calculate: "Calculate weighted overall score", the
\* numerator of the fraction whose denominator is wt.den
Overall(wt, p, r, vs) ==
    SecurityScore(vs) * wt.w["security"]
    + MaintenanceScore(p, r) * wt.w["maintenance"]
    + CommunityScore(r) * wt.w["community"]
    + PopularityScore(p, r) * wt.w["popularity"]

\* A risk factor is the text of the message and the number formatted into it
\* (<<>> when the message has none).
Risk(text, n) == [text |-> text, n |-> n]

\* [v for v in open_vulns if v.severity == severity]
OpenWithSeverity(vs, severity) ==
    SelectSeq(vs, LAMBDA v : IsOpen(v) /\ v.severity = severity)

\* A mutant of IdentifyRisks: fixed vulnerabilities are counted with the open ones.
IdentifyRisksCountingFixed(p, r, vs) ==
    LET critical == SelectSeq(vs, LAMBDA v : v.severity = "critical")
        high == SelectSeq(vs, LAMBDA v : v.severity = "high")
        age == IF p # <<>> THEN p[1].release_age ELSE NoDate
    IN (IF critical # <<>>
        THEN <<Risk("OPEN critical vulnerability(ies)", <<Len(critical)>>)>> ELSE <<>>)
       \o (IF high # <<>>
           THEN <<Risk("OPEN high severity vulnerability(ies)", <<Len(high)>>)>> ELSE <<>>)
       \o (IF r # <<>> /\ r[1].is_archived
           THEN <<Risk("Repository is archived", <<>>)>> ELSE <<>>)
       \o (IF p # <<>> /\ p[1].is_deprecated
           THEN <<Risk("Package is deprecated", <<>>)>> ELSE <<>>)
       \o (IF age # NoDate /\ age > 730
           THEN <<Risk("No release in years", <<age \div 365>>)>>
           ELSE IF age # NoDate /\ age > 365
           THEN <<Risk("No release in over a year", <<>>)>> ELSE <<>>)
       \o (IF r # <<>> /\ r[1].contributors_count = 1
           THEN <<Risk("Single maintainer (bus factor risk)", <<>>)>> ELSE <<>>)
       \o (IF r # <<>> /\ r[1].open_issues > 100 /\ r[1].issue_close_rate_90d < 100
           THEN <<Risk("Many open issues with low resolution rate", <<>>)>> ELSE <<>>)
       \o (IF p # <<>> /\ p[1].yanked_releases > 0
           THEN <<Risk("yanked release(s)", <<p[1].yanked_releases>>)>> ELSE <<>>)

\* HealthCalculator._identify_risks; release_age is (now - release_date).days
IdentifyRisks(p, r, vs) ==
    LET critical == OpenWithSeverity(vs, "critical")
        high == OpenWithSeverity(vs, "high")
        age == IF p # <<>> THEN p[1].release_age ELSE NoDate
    IN (IF critical # <<>>
        THEN <<Risk("OPEN critical vulnerability(ies)", <<Len(critical)>>)>> ELSE <<>>)
       \o (IF high # <<>>
           THEN <<Risk("OPEN high severity vulnerability(ies)", <<Len(high)>>)>> ELSE <<>>)
       \o (IF r # <<>> /\ r[1].is_archived
           THEN <<Risk("Repository is archived", <<>>)>> ELSE <<>>)
       \o (IF p # <<>> /\ p[1].is_deprecated
           THEN <<Risk("Package is deprecated", <<>>)>> ELSE <<>>)
       \o (IF age # NoDate /\ age > 730
           THEN <<Risk("No release in years", <<age \div 365>>)>>
           ELSE IF age # NoDate /\ age > 365
           THEN <<Risk("No release in over a year", <<>>)>> ELSE <<>>)
       \o (IF r # <<>> /\ r[1].contributors_count = 1
           THEN <<Risk("Single maintainer (bus factor risk)", <<>>)>> ELSE <<>>)
       \o (IF r # <<>> /\ r[1].open_issues > 100 /\ r[1].issue_close_rate_90d < 100
           THEN <<Risk("Many open issues with low resolution rate", <<>>)>> ELSE <<>>)
       \o (IF p # <<>> /\ p[1].yanked_releases > 0
           THEN <<Risk("yanked release(s)", <<p[1].yanked_releases>>)>> ELSE <<>>)

\* HealthCalculator.calculate: the scores of the returned HealthScore
Calculate(wt, p, r, vs) ==
    LET overall == Overall(wt, p, r, vs)
    IN [overall_num |-> overall,
        overall_den |-> wt.den,
        grade |-> ScoreToGrade(overall, wt.den),
        security_score |-> SecurityScore(vs),
        maintenance_score |-> MaintenanceScore(p, r),
        community_score |-> CommunityScore(r),
        popularity_score |-> PopularityScore(p, r),
        code_quality_score |-> QualityScore(r),
        license_score |-> LicenseScore(p, r),
        maintenance_status |-> DetermineMaintenanceStatus(p, r),
        risk_factors |-> IdentifyRisks(p, r, vs),
        confidence |-> DetermineConfidence(p, r)]

IdleDedup == deps = <<>> /\ seen = <<>> /\ result = <<>>

(***************************************************************************)
(* _calculate_security_score on its own                                    *)
(***************************************************************************)

VulnSamples == [severity : Severities, is_fixed_in_installed_version : BOOLEAN]

InitSecurity ==
    /\ IdleDedup /\ IdleResolver /\ IdleIO /\ pc = "vulns"
    /\ weights = <<>> /\ pypi = <<>> /\ repo = <<>> /\ vulns = <<>> /\ score = <<>>
    /\ args = <<>>

\* The scanner reports one more vulnerability for the package.
ReportVuln ==
    /\ pc = "vulns"
    /\ Len(vulns) < MaxVulns
    /\ \E v \in VulnSamples : vulns' = Append(vulns, v)
    /\ UNCHANGED <<deps, seen, result, pc, resolverVars, weights, pypi, repo, score, args, callVars, ioVars>>

\* calculator._calculate_security_score(vulnerabilities)
SecurityScoreCall ==
    /\ pc = "vulns"
    /\ score' = <<[security_score |-> SecurityScore(vulns)]>>
    /\ pc' = "scored"
    /\ UNCHANGED <<deps, seen, result, resolverVars, weights, pypi, repo, vulns, args, callVars, ioVars>>

NextSecurity == ReportVuln \/ SecurityScoreCall

SpecSecurity == InitSecurity /\ [][NextSecurity]_vars

(***************************************************************************)
(* HealthCalculator(weights).calculate(pypi, repo, vulnerabilities)        *)
(***************************************************************************)

\* Packages with many releases have yanked two of them.
PypiSamples ==
    {[release_age |-> a, total_releases |-> t, is_deprecated |-> d,
      downloads_last_month |-> n, license |-> l,
      yanked_releases |-> IF t = 0 THEN 0 ELSE 2] :
        a \in {NoDate, 10, 800}, t \in {0, 11}, d \in BOOLEAN,
        n \in {0, 1000, 50000000},
        l \in {NoLicense, <<"m", "i", "t", " ", "l", "i", "c", "e", "n", "s", "e">>}}

\* Repositories by size (contributors, stars, forks, watchers, PR merge rate)
\* and by activity (commits per day, issue close rate, days to close an issue,
\* days since the last commit).
RepoSizes ==
    {[contributors_count |-> 0, stars |-> 0, forks |-> 0, watchers |-> 0,
      pr_merge_rate_90d |-> 0],
     [contributors_count |-> 1, stars |-> 0, forks |-> 0, watchers |-> 0,
      pr_merge_rate_90d |-> 0],
     [contributors_count |-> 14, stars |-> 1000, forks |-> 100, watchers |-> 100,
      pr_merge_rate_90d |-> 500],
     [contributors_count |-> 200, stars |-> 50000, forks |-> 500, watchers |-> 5000,
      pr_merge_rate_90d |-> 1000]}

RepoActivities ==
    {[commit_frequency_30d |-> 0, issue_close_rate_90d |-> 0,
      avg_issue_close_time_days |-> 100, last_commit_age |-> NoDate,
      open_issues |-> 150],
     [commit_frequency_30d |-> 50, issue_close_rate_90d |-> 600,
      avg_issue_close_time_days |-> 10, last_commit_age |-> 400,
      open_issues |-> 500],
     [commit_frequency_30d |-> 2000, issue_close_rate_90d |-> 900,
      avg_issue_close_time_days |-> 3, last_commit_age |-> 2,
      open_issues |-> 10]}

RepoSamples ==
    {[contributors_count |-> s.contributors_count, stars |-> s.stars, forks |-> s.forks,
      watchers |-> s.watchers, pr_merge_rate_90d |-> s.pr_merge_rate_90d,
      commit_frequency_30d |-> a.commit_frequency_30d,
      issue_close_rate_90d |-> a.issue_close_rate_90d,
      avg_issue_close_time_days |-> a.avg_issue_close_time_days,
      last_commit_age |-> a.last_commit_age,
      open_issues |-> a.open_issues,
      is_archived |-> ar, is_fork |-> fk, license |-> l] :
        s \in RepoSizes, a \in RepoActivities, ar \in BOOLEAN, fk \in BOOLEAN,
        l \in {NoLicense, <<"G", "P", "L", "_", "3", ".", "0">>}}

OpenVuln(sev) == [severity |-> sev, is_fixed_in_installed_version |-> FALSE]
FixedVuln(sev) == [severity |-> sev, is_fixed_in_installed_version |-> TRUE]

CalcVulnLists ==
    {<<>>, <<OpenVuln("medium")>>, <<FixedVuln("critical")>>,
     <<OpenVuln("critical"), OpenVuln("critical"), OpenVuln("high")>>}

\* The `weights` argument of HealthCalculator(...), in hundredths; << >> is None.
WeightOverrides ==
    {<<>>,
     [k \in {"security", "maintenance"} |-> 50],
     [k \in {"popularity"} |-> 300],
     [k \in WeightKeys |-> 0],
     [k \in {"security"} |-> -100],
     [k \in {"security", "maintenance"} |-> IF k = "security" THEN 200 ELSE -100],
     [k \in {"license"} |-> 100]}

InitCalc ==
    /\ IdleDedup /\ IdleResolver /\ IdleIO /\ pc = "new"
    /\ weights = <<>> /\ score = <<>> /\ args = <<>>
    /\ pypi \in {<<>>} \cup {<<m>> : m \in PypiSamples}
    /\ repo \in {<<>>} \cup {<<m>> : m \in RepoSamples}
    /\ vulns \in CalcVulnLists

\* HealthCalculator(weights=override)
NewCalculator ==
    /\ pc = "new"
    /\ \E override \in WeightOverrides : weights' = <<NormalizedWeights(override)>>
    /\ pc' = "ready"
    /\ UNCHANGED <<deps, seen, result, resolverVars, pypi, repo, vulns, score, args, callVars, ioVars>>

\* calculator.calculate(pypi, repo, vulnerabilities)
CalculateCall ==
    /\ pc = "ready"
    /\ score' = <<Calculate(weights[1], pypi, repo, vulns)>>
    /\ pc' = "scored"
    /\ UNCHANGED <<deps, seen, result, resolverVars, weights, pypi, repo, vulns, args, callVars, ioVars>>

NextCalc == NewCalculator \/ CalculateCall

SpecCalc == InitCalc /\ [][NextCalc]_vars

(***************************************************************************)
(* The private scoring methods on their own:                               *)
(* _calculate_maintenance_score, _calculate_license_score,                 *)
(* _determine_confidence and _determine_maintenance_status                 *)
(***************************************************************************)

\* PyPIMetadata / RepositoryMetadata with every optional field at its default.
PypiDefault ==
    [release_age |-> NoDate, total_releases |-> 0, is_deprecated |-> FALSE,
     downloads_last_month |-> 0, license |-> NoLicense, yanked_releases |-> 0]

RepoDefault ==
    [contributors_count |-> 0, stars |-> 0, forks |-> 0, watchers |-> 0,
     pr_merge_rate_90d |-> 0, commit_frequency_30d |-> 0,
     issue_close_rate_90d |-> 0, avg_issue_close_time_days |-> 0,
     last_commit_age |-> NoDate, is_archived |-> FALSE, is_fork |-> FALSE,
     license |-> NoLicense, open_issues |-> 0]

\* (now - date).days on both sides of every threshold the methods test.
Ages == {NoDate, 0, 29, 30, 89, 90, 179, 180, 364, 365, 729, 730, 731, 1094, 1095}

\* License strings as reported by registries and repositories.
LicenseSamples ==
    {NoLicense, <<"m", "i", "t">>, <<"L", "G", "P", "L", "_", "3", ".", "0">>, <<"M", "p", "l", " ", "2", ".", "0">>,
     <<"G", "P", "L", "-", "2", ".", "0">>, <<"A", "G", "P", "L", "-", "3", ".", "0">>,
     <<"C", "u", "s", "t", "o", "m">>}

SignalPypi ==
    {[PypiDefault EXCEPT !.release_age = a, !.is_deprecated = d,
                         !.downloads_last_month = n] :
         a \in Ages, d \in BOOLEAN, n \in {0, 1000}}
    \cup {[PypiDefault EXCEPT !.release_age = a, !.is_deprecated = d,
                              !.total_releases = n] :
              a \in {NoDate, 100}, d \in BOOLEAN, n \in {5, 6, 10, 11}}
    \cup {[PypiDefault EXCEPT !.license = l] : l \in LicenseSamples}
    \cup {[PypiDefault EXCEPT !.yanked_releases = y, !.release_age = a] :
              y \in {1, 3}, a \in {NoDate, 731}}

SignalRepo ==
    {[RepoDefault EXCEPT !.last_commit_age = a, !.is_archived = ar] :
         a \in Ages, ar \in BOOLEAN}
    \cup {[RepoDefault EXCEPT !.commit_frequency_30d = c, !.issue_close_rate_90d = i,
                              !.is_archived = ar] :
              c \in {0, 50, 100, 101, 1000, 1001}, i \in {500, 501, 800, 801},
              ar \in BOOLEAN}
    \cup {[RepoDefault EXCEPT !.license = l] : l \in LicenseSamples}
    \cup {[RepoDefault EXCEPT !.contributors_count = c, !.open_issues = o,
                              !.issue_close_rate_90d = i] :
              c \in {0, 1, 2}, o \in {100, 101}, i \in {99, 100}}

SignalVulns ==
    {<<>>, <<FixedVuln("critical")>>,
     <<OpenVuln("critical"), FixedVuln("critical"), OpenVuln("high")>>,
     <<FixedVuln("high"), OpenVuln("critical"), OpenVuln("critical")>>}

InitSignals ==
    /\ IdleDedup /\ IdleResolver /\ IdleIO /\ pc = "signals"
    /\ weights = <<NormalizedWeights(<<>>)>> /\ score = <<>>
    /\ vulns \in {l \in SignalVulns : Len(l) <= MaxVulns}
    /\ args = <<>>
    /\ pypi \in {<<>>} \cup {<<m>> : m \in SignalPypi}
    /\ repo \in {<<>>} \cup {<<m>> : m \in SignalRepo}

\* calculator._calculate_maintenance_score(pypi, repo)
MaintenanceScoreCall ==
    /\ pc = "signals"
    /\ score' = <<[maintenance_score |-> MaintenanceScore(pypi, repo)]>>
    /\ pc' = "maintenance"
    /\ UNCHANGED <<deps, seen, result, resolverVars, weights, pypi, repo, vulns, args, callVars, ioVars>>

\* calculator._calculate_license_score(pypi, repo)
LicenseScoreCall ==
    /\ pc = "signals"
    /\ score' = <<[license_score |-> LicenseScore(pypi, repo)]>>
    /\ pc' = "license"
    /\ UNCHANGED <<deps, seen, result, resolverVars, weights, pypi, repo, vulns, args, callVars, ioVars>>

\* calculator._determine_confidence(pypi, repo)
DetermineConfidenceCall ==
    /\ pc = "signals"
    /\ score' = <<[confidence |-> DetermineConfidence(pypi, repo)]>>
    /\ pc' = "confidence"
    /\ UNCHANGED <<deps, seen, result, resolverVars, weights, pypi, repo, vulns, args, callVars, ioVars>>

\* calculator._determine_maintenance_status(pypi, repo)
DetermineMaintenanceStatusCall ==
    /\ pc = "signals"
    /\ score' = <<[maintenance_status |-> DetermineMaintenanceStatus(pypi, repo)]>>
    /\ pc' = "status"
    /\ UNCHANGED <<deps, seen, result, resolverVars, weights, pypi, repo, vulns, args, callVars, ioVars>>

\* calculator._identify_risks(pypi, repo, vulnerabilities)
IdentifyRisksCall ==
    /\ pc = "signals"
    /\ score' = <<[risk_factors |-> IdentifyRisks(pypi, repo, vulns)]>>
    /\ pc' = "risks"
    /\ UNCHANGED <<deps, seen, result, resolverVars, weights, pypi, repo, vulns, args, callVars, ioVars>>

NextSignals ==
    \/ IdentifyRisksCall
    \/ MaintenanceScoreCall
    \/ LicenseScoreCall
    \/ DetermineConfidenceCall
    \/ DetermineMaintenanceStatusCall

SpecSignals == InitSignals /\ [][NextSignals]_vars

(***************************************************************************)
(* _log_normalize and _linear_normalize on their own                       *)
(***************************************************************************)

\* Largest value, min_val and max_val handed to the normalizers.
MaxArg == 4

NormArgs == -2..MaxArg

NormCalls ==
    [value : NormArgs, min_val : NormArgs, max_val : NormArgs, max_score : {10, 40}]

InitNormalize ==
    /\ IdleDedup /\ IdleResolver /\ IdleIO /\ pc = "call"
    /\ weights = <<>> /\ pypi = <<>> /\ repo = <<>> /\ vulns = <<>> /\ score = <<>>
    /\ args \in {<<a>> : a \in NormCalls}

\* _log_normalize(value, min_val, max_val, max_score)
LogNormalizeCall ==
    /\ pc = "call"
    /\ LET a == args[1]
           raised == LogNormalizeRaises(a.value, a.min_val, a.max_val)
       IN IF raised # None
          THEN /\ exc' = raised /\ pc' = "log raised" /\ score' = score
          ELSE /\ score' = <<[result |-> LogNormalize(a.value, a.min_val, a.max_val,
                                                      a.max_score)]>>
               /\ pc' = "log returned" /\ exc' = exc
    /\ UNCHANGED <<deps, seen, result, fs, target, files, stack,
                   weights, pypi, repo, vulns, args, callVars, ioVars>>

\* _linear_normalize(value, min_val, max_val, max_score)
LinearNormalizeCall ==
    /\ pc = "call"
    /\ LET a == args[1]
           raised == LinearNormalizeRaises(a.value, a.min_val, a.max_val)
       IN IF raised # None
          THEN /\ exc' = raised /\ pc' = "linear raised" /\ score' = score
          ELSE /\ score' = <<[result |-> LinearNormalize(a.value, a.min_val, a.max_val,
                                                         a.max_score)]>>
               /\ pc' = "linear returned" /\ exc' = exc
    /\ UNCHANGED <<deps, seen, result, fs, target, files, stack,
                   weights, pypi, repo, vulns, args, callVars, ioVars>>

NextNormalize == LogNormalizeCall \/ LinearNormalizeCall

SpecNormalize == InitNormalize /\ [][NextNormalize]_vars

(***************************************************************************)
(* Properties of _deduplicate and PackageIdentifier (under SpecDedup)      *)
(***************************************************************************)

\* The elements of the input that share the normalized name `key`, in input order.
SameKey(s, key) == SelectSeq(s, LAMBDA p : NormalizedName(p.name) = key)

VersionedOnly(s) == SelectSeq(s, LAMBDA p : Truthy(p.version))

AllExtras(s) == UNION {Range(s[k].extras) : k \in 1..Len(s)}

Returned == pc = "done"

\* C3: the list returned by _deduplicate holds exactly one entry for each
\* normalized name of the input, and no two entries share a normalized name.
C3_DedupUnique ==
    Returned =>
        /\ \A i, j \in 1..Len(result) :
             NormalizedName(result[i].name) = NormalizedName(result[j].name) => i = j
        /\ {NormalizedName(result[k].name) : k \in 1..Len(result)}
             = {NormalizedName(deps[k].name) : k \in 1..Len(deps)}

C3_Witness ==
    /\ Returned /\ Len(deps) = 3 /\ Len(result) = 2
    /\ deps[1].name # deps[2].name
    /\ NormalizedName(deps[1].name) = NormalizedName(deps[2].name)

\* C4: the merged entry carries the version of the first input identifier of
\* its normalized name that has a version, and has none only when none has one.
C4_DedupVersion ==
    Returned =>
        \A k \in 1..Len(result) :
            LET versioned == VersionedOnly(SameKey(deps, NormalizedName(result[k].name)))
            IN IF versioned = <<>>
               THEN ~Truthy(result[k].version)
               ELSE result[k].version = versioned[1].version

C4_Witness ==
    /\ Returned /\ Len(deps) = 3 /\ Len(result) = 1
    /\ deps[1].version = None /\ deps[2].version = "1.0" /\ deps[3].version = "2.0"
    /\ deps[1].extras = <<>> /\ deps[2].extras # <<>>
    /\ result[1].version = "1.0"

\* C5: the extras of the merged entry, as a set, are the union of the extras of
\* all input identifiers of its normalized name.
C5_DedupExtras ==
    Returned =>
        \A k \in 1..Len(result) :
            Range(result[k].extras) = AllExtras(SameKey(deps, NormalizedName(result[k].name)))

C5_Witness ==
    /\ Returned /\ Len(deps) = 3 /\ Len(result) = 1
    /\ deps[1].extras = <<"security">> /\ deps[1].version = None
    /\ deps[2].extras = <<"socks">> /\ deps[2].version = None
    /\ deps[3].extras = <<>> /\ deps[3].version = "1.0"
    /\ Range(result[1].extras) = {"security", "socks"}

\* C6: the merged entry keeps the exact spelling of the name of the first input
\* identifier of its normalized name.
C6_DedupFirstName ==
    Returned =>
        \A k \in 1..Len(result) :
            result[k].name = SameKey(deps, NormalizedName(result[k].name))[1].name

\* The normalization C7 states: lowercase, every run of "_" and "." collapsed to "-".
RECURSIVE CollapseUnderscoreDotRuns(_)
CollapseUnderscoreDotRuns(name) ==
    IF name = <<>> THEN <<>>
    ELSE IF Head(name) \in {"_", "."}
         THEN IF Len(name) > 1 /\ name[2] \in {"_", "."}
              THEN CollapseUnderscoreDotRuns(Tail(name))
              ELSE <<"-">> \o CollapseUnderscoreDotRuns(Tail(name))
         ELSE <<Head(name)>> \o CollapseUnderscoreDotRuns(Tail(name))

\* C7: normalized_name is the lowercased name with runs of "_" and "." collapsed
\* to one "-", so spellings that differ only in separators are merged by
\* _deduplicate into one entry.
C7_NormalizedNameCollapses ==
    /\ \A k \in 1..Len(deps) :
         NormalizedName(deps[k].name) = CollapseUnderscoreDotRuns(Lower(deps[k].name))
    /\ Returned =>
         \A i, j \in 1..Len(result) :
             CollapseUnderscoreDotRuns(Lower(result[i].name))
               = CollapseUnderscoreDotRuns(Lower(result[j].name)) => i = j

\* An upper-case letter and its lower-case form.
CasePair(c, d) == (c = "Z" /\ d = "z") \/ (c = "I" /\ d = "i")

\* Two names that differ at most in the case of their letters.
SameUpToCase(m, n) ==
    /\ Len(m) = Len(n)
    /\ \A k \in 1..Len(m) : m[k] = n[k] \/ CasePair(m[k], n[k]) \/ CasePair(n[k], m[k])

\* C8 (under SpecIdent): equality ignores the case of the name and is exact on
\* version and extras, is an equivalence relation, and equal identifiers hash
\* equally, so a set keeps one element per class of equal identifiers.
C8_EqHashConsistent ==
    LET ids == Range(deps)
        set == PySet(deps)
    IN
    /\ \A a, b \in ids :
         /\ PkgEq(a, b) <=> /\ SameUpToCase(a.name, b.name)
                            /\ a.version = b.version
                            /\ a.extras = b.extras
         /\ PkgEq(a, a)
         /\ PkgEq(a, b) => PkgEq(b, a)
         /\ PkgEq(a, b) => PkgHash(a) = PkgHash(b)
         /\ \A c \in ids : PkgEq(a, b) /\ PkgEq(b, c) => PkgEq(a, c)
    /\ \A a, b \in set : PkgEq(a, b) => a = b
    /\ \A a \in ids : \E b \in set : PkgEq(a, b)

C8_Witness ==
    /\ Len(deps) = 3
    /\ deps[1].name = <<"Z", "_", "i">> /\ deps[2].name = <<"z", "_", "i">>
    /\ deps[3].name = <<"z", "_", "i">>
    /\ deps[1].version = "1.0" /\ deps[2].version = "1.0" /\ deps[3].version = None
    /\ deps[1].extras = <<"security", "socks">> /\ deps[2].extras = deps[1].extras
    /\ Cardinality(PySet(deps)) = 2

(***************************************************************************)
(* Properties of HealthCalculator (under SpecSecurity and SpecCalc)        *)
(***************************************************************************)

\* The severity weights as C9 lists them, in tenths of a point.
C9_Weight(severity) ==
    CASE severity = "critical" -> 400
      [] severity = "high" -> 250
      [] severity = "medium" -> 100
      [] severity = "low" -> 50
      [] severity = "info" -> 10

\* D of C9 in tenths of a point: each vulnerability once, in full when open and
\* at a tenth when fixed in the installed version.
C9_Deduction(vs) ==
    LET each == [k \in 1..Len(vs) |->
                    IF vs[k].is_fixed_in_installed_version
                    THEN C9_Weight(vs[k].severity) \div 10
                    ELSE C9_Weight(vs[k].severity)]
    IN SumOver(each, 1..Len(vs))

\* C9 (under SpecSecurity): the security score is 100 for an empty list and
\* max(0, 100 - D) otherwise; one open medium gives 90, open critical plus open
\* high 35, one fixed critical 96, and the score is never below 0.
C9_SecurityScore ==
    pc = "scored" =>
        /\ score[1].security_score * 10
             = Max(0, 100 * 10 * MILLI - C9_Deduction(vulns) * MILLI)
        /\ score[1].security_score >= 0
        /\ vulns = <<>> => score[1].security_score = 100 * MILLI
        /\ vulns = <<OpenVuln("medium")>> => score[1].security_score = 90 * MILLI
        /\ vulns = <<OpenVuln("critical"), OpenVuln("high")>>
             => score[1].security_score = 35 * MILLI
        /\ vulns = <<FixedVuln("critical")>> => score[1].security_score = 96 * MILLI

C9_Witness ==
    /\ pc = "scored"
    /\ vulns = <<OpenVuln("critical"), FixedVuln("critical"), OpenVuln("high")>>
    /\ score[1].security_score = 31 * MILLI

InRange(x) == 0 <= x /\ x <= 100 * MILLI

\* C10 (under SpecCalc): whatever the weight overrides and the inputs, the six
\* sub-scores and the overall score of the returned HealthScore are in [0, 100].
C10_ScoresInRange ==
    pc = "scored" =>
        LET h == score[1] IN
        /\ InRange(h.security_score) /\ InRange(h.maintenance_score)
        /\ InRange(h.community_score) /\ InRange(h.popularity_score)
        /\ InRange(h.code_quality_score) /\ InRange(h.license_score)
        /\ 0 <= h.overall_num
        /\ h.overall_num <= 100 * MILLI * h.overall_den

(***************************************************************************)
(* Properties of parse and resolve (under SpecResolve)                     *)
(***************************************************************************)

\* The requirements files reached from f by following `-r` lines n times or fewer.
RECURSIVE IncludeReach(_, _)
IncludeReach(f, n) ==
    IF n = 0 THEN {}
    ELSE LET direct == Range(IncludedFiles(fs[f].lines))
         IN direct \cup UNION {IncludeReach(g, n - 1) : g \in direct}

\* Some requirements file includes itself, directly or through other files.
CyclicIncludes ==
    \E f \in ReqFiles : Exists(f) /\ f \in IncludeReach(f, Cardinality(ReqFiles))

\* Every file of the directory that exists can be read and parsed.
AllFilesParse == \A f \in FileNames : fs[f].status \in {"ok", "absent"}

\* C1: with plain-list files that include themselves directly or transitively,
\* parse and resolve (on the file or on its directory) return a list; they do
\* not end in a stack overflow or any other exception.
C1_CyclicIncludesReturn ==
    (/\ CyclicIncludes /\ AllFilesParse
     /\ op = "resolve_file" => (Exists(target) /\ FirstParser(target) # None))
    => pc # "raised"

\* C2: resolve on a directory raises nothing when a discovered file fails to
\* parse (malformed, unreadable or undecodable), and its result has an entry
\* for every identifier of every discovered file that parses.
C2_DirectorySurvivesBadFile ==
    (op = "resolve" /\ target = Dir /\ ~CyclicIncludes) =>
        /\ pc # "raised"
        /\ pc = "done" =>
             \A f \in FileNames :
                 fs[f].status = "ok" =>
                     \A p \in Range(OwnPackages(fs[f].lines)) :
                         \E k \in 1..Len(result) :
                             NormalizedName(result[k].name) = NormalizedName(p.name)

(***************************************************************************)
(* Properties of calculate (under SpecCalc), continued                     *)
(***************************************************************************)

Scored == pc = "scored"

\* Inputs that differ from the call's in one field that feeds the code-quality
\* or the license score alone: another license identifier, or is_fork negated.
C11_OtherLicense(l) == IF l = NoLicense THEN <<"M", "I", "T">> ELSE NoLicense

C11_Variants ==
    (IF pypi = <<>> THEN {}
     ELSE {<<<<[pypi[1] EXCEPT !.license = C11_OtherLicense(@)]>>, repo>>})
    \cup
    (IF repo = <<>> THEN {}
     ELSE {<<pypi, <<[repo[1] EXCEPT !.license = C11_OtherLicense(@)]>>>>,
           <<pypi, <<[repo[1] EXCEPT !.is_fork = ~@]>>>>})

\* C11: the overall score of the returned HealthScore is the sum of the
\* security, maintenance, community and popularity scores, each times the
\* calculator's weight for it, and an input that differs only in license
\* identifiers and is_fork has the same overall score and the same grade.
C11_OverallComposition ==
    Scored =>
        LET h == score[1]
            wt == weights[1]
        IN /\ h.overall_den = wt.den
           /\ h.overall_num = h.security_score * wt.w["security"]
                               + h.maintenance_score * wt.w["maintenance"]
                               + h.community_score * wt.w["community"]
                               + h.popularity_score * wt.w["popularity"]
           /\ \A v \in C11_Variants :
                  LET overall2 == Overall(wt, v[1], v[2], vulns)
                  IN /\ overall2 = h.overall_num
                     /\ ScoreToGrade(overall2, wt.den) = h.grade

C11_Witness ==
    /\ Scored /\ pypi # <<>> /\ repo # <<>>
    /\ repo[1].is_fork /\ repo[1].license # NoLicense
    /\ score[1].license_score = 60 * MILLI
    /\ score[1].code_quality_score = 50 * MILLI
    /\ score[1].overall_num > 0

Constructed == pc \in {"ready", "scored"}

\* C12: after HealthCalculator(weights=override), for any override map, the
\* calculator's weights sum to 1.0 (the sum of the numerators equals the
\* common denominator).
C12_WeightsSumToOne ==
    Constructed =>
        SumOver(weights[1].w, DOMAIN weights[1].w) = weights[1].den

\* Grades from worst to best.
C13_Rank(g) ==
    CASE g = "F" -> 0 [] g = "D" -> 1 [] g = "C" -> 2 [] g = "B" -> 3 [] g = "A" -> 4

\* The grade of the score num/den (in thousandths of a point) by its interval.
C13_Interval(num, den) ==
    CASE num >= 85 * MILLI * den -> "A"
      [] 75 * MILLI * den <= num /\ num < 85 * MILLI * den -> "B"
      [] 65 * MILLI * den <= num /\ num < 75 * MILLI * den -> "C"
      [] 55 * MILLI * den <= num /\ num < 65 * MILLI * den -> "D"
      [] num < 55 * MILLI * den -> "F"

\* Scores at and just below every grade boundary, in thousandths of a point.
C13_Boundaries ==
    {0, 54999, 55000, 64999, 65000, 74999, 75000, 84999, 85000, 100000}

C14_KnownAges ==
    (IF pypi # <<>> /\ pypi[1].release_age # NoDate THEN {pypi[1].release_age} ELSE {})
    \cup (IF repo # <<>> /\ repo[1].last_commit_age # NoDate
          THEN {repo[1].last_commit_age} ELSE {})

C14_ByAge ==
    IF C14_KnownAges = {} THEN "abandoned"
    ELSE LET minDays == CHOOSE d \in C14_KnownAges : \A e \in C14_KnownAges : d <= e
         IN CASE minDays < 90 -> "active"
              [] 90 <= minDays /\ minDays < 365 -> "stable"
              [] 365 <= minDays /\ minDays < 730 -> "slow"
              [] 730 <= minDays /\ minDays < 1095 -> "minimal"
              [] minDays >= 1095 -> "abandoned"

\* C14: _determine_maintenance_status returns ARCHIVED for an archived
\* repository whatever else holds, else DEPRECATED for a deprecated package,
\* else the class of the smaller of the days since the last release and since
\* the last commit (a missing date never being the smaller): below 90 ACTIVE,
\* below 365 STABLE, below 730 SLOW, below 1095 MINIMAL, else ABANDONED, which
\* is also the status when no date is known.
C14_MaintenanceStatus ==
    pc = "status" =>
        score[1].maintenance_status =
            IF repo # <<>> /\ repo[1].is_archived THEN "archived"
            ELSE IF pypi # <<>> /\ pypi[1].is_deprecated THEN "deprecated"
            ELSE C14_ByAge

C14_Witness ==
    /\ pc = "status" /\ pypi # <<>> /\ repo # <<>>
    /\ repo[1].is_archived /\ pypi[1].is_deprecated /\ pypi[1].release_age = 0
    /\ score[1].maintenance_status = "archived"

C15_HasPypi == pypi # <<>>
C15_HasRepo == repo # <<>>
C15_HasDownloads == pypi # <<>> /\ pypi[1].downloads_last_month > 0

\* C15: _determine_confidence returns HIGH exactly when registry metadata and
\* repository metadata are present and monthly downloads are positive, MEDIUM
\* exactly when registry metadata is present and exactly one of the other two
\* holds, and LOW otherwise, in particular whenever registry metadata is absent.
C15_Confidence ==
    pc = "confidence" =>
        LET c == score[1].confidence
        IN /\ c = "high" <=> (C15_HasPypi /\ C15_HasRepo /\ C15_HasDownloads)
           /\ c = "medium" <=> (C15_HasPypi /\ (C15_HasRepo # C15_HasDownloads))
           /\ c = "low" <=> ~(C15_HasPypi /\ (C15_HasRepo \/ C15_HasDownloads))
           /\ ~C15_HasPypi => c = "low"

C15_Witness ==
    /\ pc = "confidence" /\ pypi = <<>> /\ repo # <<>>
    /\ score[1].confidence = "low"

\* The license names of the three categories, in upper case.
C18_Permissive ==
    {<<"M", "I", "T">>,
     <<"A", "P", "A", "C", "H", "E", "-", "2", ".", "0">>,
     <<"B", "S", "D", "-", "2", "-", "C", "L", "A", "U", "S", "E">>,
     <<"B", "S", "D", "-", "3", "-", "C", "L", "A", "U", "S", "E">>,
     <<"I", "S", "C">>,
     <<"U", "N", "L", "I", "C", "E", "N", "S", "E">>,
     <<"0", "B", "S", "D">>}

C18_WeakCopyleft ==
    {<<"L", "G", "P", "L", "-", "2", ".", "1">>,
     <<"L", "G", "P", "L", "-", "3", ".", "0">>,
     <<"M", "P", "L", "-", "2", ".", "0">>}

C18_StrongCopyleft ==
    {<<"G", "P", "L", "-", "2", ".", "0">>,
     <<"G", "P", "L", "-", "3", ".", "0">>,
     <<"A", "G", "P", "L", "-", "3", ".", "0">>}

\* The identifier the score is derived from: the repository's when present,
\* else the registry's, else none.
C18_Identifier ==
    IF repo # <<>> /\ repo[1].license # NoLicense THEN repo[1].license
    ELSE IF pypi # <<>> THEN pypi[1].license
    ELSE NoLicense

C18_Matches(names) ==
    LET id == ReplaceChar(ReplaceChar(Upper(C18_Identifier), " ", "-"), "_", "-")
    IN \E n \in names : Contains(id, n)

\* C18: _calculate_license_score takes the repository's license when present,
\* else the registry's; gives 30 without an identifier; otherwise upper-cases
\* it, turns spaces and underscores into hyphens, and gives 100 if it contains
\* a permissive name, else 75 if it contains LGPL-2.1, LGPL-3.0 or MPL-2.0,
\* else 60 if it contains GPL-2.0, GPL-3.0 or AGPL-3.0, else 50; an LGPL or MPL
\* identifier never scores 60.
C18_LicenseScore ==
    pc = "license" =>
        /\ score[1].license_score =
              (IF C18_Identifier = NoLicense THEN 30 * MILLI
               ELSE IF C18_Matches(C18_Permissive) THEN 100 * MILLI
               ELSE IF C18_Matches(C18_WeakCopyleft) THEN 75 * MILLI
               ELSE IF C18_Matches(C18_StrongCopyleft) THEN 60 * MILLI
               ELSE 50 * MILLI)
        /\ (C18_Identifier # NoLicense /\ C18_Matches(C18_WeakCopyleft))
              => score[1].license_score # 60 * MILLI

C18_Witness ==
    /\ pc = "license" /\ pypi # <<>> /\ repo # <<>>
    /\ repo[1].license = <<"L", "G", "P", "L", "_", "3", ".", "0">>
    /\ pypi[1].license = <<"G", "P", "L", "-", "2", ".", "0">>
    /\ score[1].license_score = 75 * MILLI

\* The registry adjustments, in points: the release-age adjustment when the
\* release date is known, and the release-count bonus and the deprecation
\* penalty whenever registry metadata is present.
C17_Registry ==
    IF pypi = <<>> THEN 0
    ELSE LET m == pypi[1]
             d == m.release_age
         IN (IF d = NoDate THEN 0
             ELSE IF d < 30 THEN 20
             ELSE IF d < 90 THEN 15
             ELSE IF d < 180 THEN 10
             ELSE IF d < 365 THEN 5
             ELSE IF d > 730 THEN -10
             ELSE 0)
            + (IF m.total_releases > 10 THEN 10
               ELSE IF m.total_releases > 5 THEN 5 ELSE 0)
            + (IF m.is_deprecated THEN -20 ELSE 0)

\* The repository adjustments, in points.
C17_Repository ==
    IF repo = <<>> THEN 0
    ELSE LET m == repo[1]
         IN (IF m.commit_frequency_30d > 1000 THEN 15
             ELSE IF m.commit_frequency_30d > 100 THEN 10
             ELSE IF m.commit_frequency_30d > 0 THEN 5 ELSE 0)
            + (IF m.issue_close_rate_90d > 800 THEN 10
               ELSE IF m.issue_close_rate_90d > 500 THEN 5 ELSE 0)
            + (IF m.is_archived THEN -30 ELSE 0)

\* C17: _calculate_maintenance_score returns 50 plus the registry adjustments
\* plus the repository adjustments, clamped to [0, 100], the release-count
\* bonus and the deprecation penalty applying whenever registry metadata is
\* present, also when the release date is unknown.
C17_MaintenanceScore ==
    pc = "maintenance" =>
        score[1].maintenance_score
            = Min(100, Max(0, 50 + C17_Registry + C17_Repository)) * MILLI

(***************************************************************************)
(* Properties of calculate (under SpecCalc), continued                     *)
(***************************************************************************)

C16_Fields ==
    {"overall_num", "overall_den", "grade", "security_score", "maintenance_score",
     "community_score", "popularity_score", "code_quality_score", "license_score",
     "maintenance_status", "risk_factors", "confidence"}

\* C16: calculate raises nothing and returns a HealthScore for every
\* combination of absent or present registry metadata, absent or present
\* repository metadata (dates and license missing or not) and vulnerability
\* list; with both records absent and no vulnerabilities the scores are
\* security 100, maintenance 50, community 50, popularity 50, code quality 50
\* and the confidence is LOW.
C16_CalculateTotal ==
    /\ pc # "raised" /\ exc = None
    /\ Scored =>
          LET h == score[1]
          IN /\ DOMAIN h = C16_Fields
             /\ h.grade \in {"A", "B", "C", "D", "F"}
             /\ h.confidence \in {"high", "medium", "low"}
             /\ (pypi = <<>> /\ repo = <<>> /\ vulns = <<>>) =>
                    /\ h.security_score = 100 * MILLI
                    /\ h.maintenance_score = 50 * MILLI
                    /\ h.community_score = 50 * MILLI
                    /\ h.popularity_score = 50 * MILLI
                    /\ h.code_quality_score = 50 * MILLI
                    /\ h.confidence = "low"

C16_Witness ==
    /\ Scored /\ pypi = <<>> /\ repo = <<>> /\ vulns = <<>>
    /\ score[1].confidence = "low" /\ score[1].license_score = 30 * MILLI

(***************************************************************************)
(* Properties of the normalizers (under SpecNormalize)                     *)
(***************************************************************************)

NormReturned == pc \in {"log returned", "linear returned"}
NormRaised == pc \in {"log raised", "linear raised"}
NormCalled == NormReturned \/ NormRaised

\* C19: when max_val = min_val, _log_normalize and _linear_normalize do not
\* divide by zero and return max_score for every value >= min_val, the value
\* min_val itself included, and 0 for every value < min_val.
C19_DegenerateRange ==
    (NormCalled /\ args[1].max_val = args[1].min_val) =>
        /\ NormReturned
        /\ score[1].result = IF args[1].value >= args[1].min_val
                              THEN args[1].max_score * MILLI ELSE 0

\* The result of the call's function for another value of the same range
\* (used only where that call returns).
C20_At(v) ==
    IF pc = "log returned"
    THEN LogNormalize(v, args[1].min_val, args[1].max_val, args[1].max_score)
    ELSE LinearNormalize(v, args[1].min_val, args[1].max_val, args[1].max_score)

C20_ReturnsAt(v) ==
    IF pc = "log returned"
    THEN LogNormalizeRaises(v, args[1].min_val, args[1].max_val) = None
    ELSE LinearNormalizeRaises(v, args[1].min_val, args[1].max_val) = None

\* C20: for every value and every range min_val < max_val, ranges with
\* min_val < 1 or max_val <= 1 included, _log_normalize and _linear_normalize
\* return without error a result in [0, max_score], exactly 0 at min_val and
\* exactly max_score at max_val, and never less than for a smaller value.
C20_TotalBoundedMonotone ==
    (NormCalled /\ args[1].min_val < args[1].max_val) =>
        /\ NormReturned
        /\ LET a == args[1]
               r == score[1].result
           IN /\ 0 <= r /\ r <= a.max_score * MILLI
              /\ a.value = a.min_val => r = 0
              /\ a.value = a.max_val => r = a.max_score * MILLI
              /\ \A v \in NormArgs :
                     (v <= a.value /\ C20_ReturnsAt(v)) => C20_At(v) <= r

(***************************************************************************)
(* Vulnerability.to_dict / from_dict and DependencyReport.to_dict          *)
(*                                                                         *)
(* An enum member is denoted by the string of its value; the `str` that    *)
(* `.value` returns, like every other text that is written out, is a       *)
(* sequence of characters.  A datetime is a record of its fields, with     *)
(* utcoffset in minutes (<<>> for a naive datetime).                       *)
(***************************************************************************)

\* RiskLevel(...).value
RiskLevelValue(member) ==
    CASE member = "critical" -> <<"c", "r", "i", "t", "i", "c", "a", "l">>
      [] member = "high" -> <<"h", "i", "g", "h">>
      [] member = "medium" -> <<"m", "e", "d", "i", "u", "m">>
      [] member = "low" -> <<"l", "o", "w">>
      [] member = "info" -> <<"i", "n", "f", "o">>

\* RiskLevel(value): the member with that value; ValueError when there is none
RiskLevelRaises(value) == \A m \in Severities : RiskLevelValue(m) # value

RiskLevelOf(value) == CHOOSE m \in Severities : RiskLevelValue(m) = value

\* HealthGrade(...).value
HealthGradeValue(member) ==
    CASE member = "A" -> <<"A">>
      [] member = "B" -> <<"B">>
      [] member = "C" -> <<"C">>
      [] member = "D" -> <<"D">>
      [] member = "F" -> <<"F">>

DigitChars == <<"0", "1", "2", "3", "4", "5", "6", "7", "8", "9">>

IsDigit(c) == \E k \in 1..10 : DigitChars[k] = c

DigitValue(c) == (CHOOSE k \in 1..10 : DigitChars[k] = c) - 1

\* n written with `width` digits, zero padded
RECURSIVE Digits(_, _)
Digits(n, width) ==
    IF width = 0 THEN <<>>
    ELSE Append(Digits(n \div 10, width - 1), DigitChars[(n % 10) + 1])

\* int(s) for a string of digits
RECURSIVE DigitsValue(_)
DigitsValue(s) ==
    IF s = <<>> THEN 0
    ELSE DigitsValue(SubSeq(s, 1, Len(s) - 1)) * 10 + DigitValue(s[Len(s)])

AllDigits(s) == \A k \in 1..Len(s) : IsDigit(s[k])

\* datetime.isoformat(): YYYY-MM-DDTHH:MM:SS[.ffffff][+HH:MM]
Isoformat(dt) ==
    Digits(dt.year, 4) \o <<"-">> \o Digits(dt.month, 2) \o <<"-">> \o Digits(dt.day, 2)
    \o <<"T">> \o Digits(dt.hour, 2) \o <<":">> \o Digits(dt.minute, 2)
    \o <<":">> \o Digits(dt.second, 2)
    \o (IF dt.microsecond # 0 THEN <<".">> \o Digits(dt.microsecond, 6) ELSE <<>>)
    \o (IF dt.utcoffset = <<>> THEN <<>>
        ELSE LET off == dt.utcoffset[1]
                 mag == IF off < 0 THEN -off ELSE off
             IN <<IF off < 0 THEN "-" ELSE "+">>
                \o Digits(mag \div 60, 2) \o <<":">> \o Digits(mag % 60, 2))

\* The part of an ISO string after the seconds and the fraction
IsoZone(s) ==
    IF Len(s) > 19 /\ s[20] = "." THEN SubSeq(s, 27, Len(s)) ELSE SubSeq(s, 20, Len(s))

\* datetime.fromisoformat(s) raises ValueError
FromIsoformatRaises(s) ==
    \/ Len(s) < 19
    \/ ~AllDigits(SubSeq(s, 1, 4)) \/ s[5] # "-" \/ ~AllDigits(SubSeq(s, 6, 7))
    \/ s[8] # "-" \/ ~AllDigits(SubSeq(s, 9, 10))
    \/ ~AllDigits(SubSeq(s, 12, 13)) \/ s[14] # ":" \/ ~AllDigits(SubSeq(s, 15, 16))
    \/ s[17] # ":" \/ ~AllDigits(SubSeq(s, 18, 19))
    \/ DigitsValue(SubSeq(s, 6, 7)) \notin 1..12
    \/ DigitsValue(SubSeq(s, 9, 10)) \notin 1..31
    \/ DigitsValue(SubSeq(s, 12, 13)) > 23
    \/ DigitsValue(SubSeq(s, 15, 16)) > 59
    \/ DigitsValue(SubSeq(s, 18, 19)) > 59
    \/ (Len(s) > 19 /\ s[20] = "." /\ (Len(s) < 26 \/ ~AllDigits(SubSeq(s, 21, 26))))
    \/ LET z == IsoZone(s)
       IN z # <<>> /\ ~(/\ Len(z) = 6 /\ z[1] \in {"+", "-"}
                        /\ AllDigits(SubSeq(z, 2, 3)) /\ z[4] = ":"
                        /\ AllDigits(SubSeq(z, 5, 6)))

\* datetime.fromisoformat(s)
FromIsoformat(s) ==
    LET z == IsoZone(s)
    IN [year |-> DigitsValue(SubSeq(s, 1, 4)),
        month |-> DigitsValue(SubSeq(s, 6, 7)),
        day |-> DigitsValue(SubSeq(s, 9, 10)),
        hour |-> DigitsValue(SubSeq(s, 12, 13)),
        minute |-> DigitsValue(SubSeq(s, 15, 16)),
        second |-> DigitsValue(SubSeq(s, 18, 19)),
        microsecond |-> IF Len(s) > 19 /\ s[20] = "."
                        THEN DigitsValue(SubSeq(s, 21, 26)) ELSE 0,
        utcoffset |-> IF z = <<>> THEN <<>>
                      ELSE LET mag == DigitsValue(SubSeq(z, 2, 3)) * 60
                                      + DigitsValue(SubSeq(z, 5, 6))
                           IN <<IF z[1] = "-" THEN -mag ELSE mag>>]

\* data.get(key, default)
DictGet(data, key, default) == IF key \in DOMAIN data THEN data[key] ELSE default

\* A mutant of VulnToDict: the runtime flag is written with the other fields.
VulnToDictWithFlag(v) ==
    [id |-> v.id,
     severity |-> RiskLevelValue(v.severity),
     title |-> v.title,
     description |-> v.description,
     affected_versions |-> v.affected_versions,
     fixed_version |-> v.fixed_version,
     published |-> IF v.published # <<>> THEN <<Isoformat(v.published[1])>> ELSE <<>>,
     references |-> v.references,
     cvss_score |-> v.cvss_score,
     is_fixed_in_installed_version |-> v.is_fixed_in_installed_version]

\* Vulnerability.to_dict
VulnToDict(v) ==
    [id |-> v.id,
     severity |-> RiskLevelValue(v.severity),
     title |-> v.title,
     description |-> v.description,
     affected_versions |-> v.affected_versions,
     fixed_version |-> v.fixed_version,
     published |-> IF v.published # <<>> THEN <<Isoformat(v.published[1])>> ELSE <<>>,
     references |-> v.references,
     cvss_score |-> v.cvss_score]

\* Vulnerability.from_dict raises (RiskLevel(...) on an unknown value)
VulnFromDictRaises(data) ==
    RiskLevelRaises(DictGet(data, "severity", RiskLevelValue("medium")))

\* Vulnerability.from_dict
VulnFromDict(data) ==
    LET text == DictGet(data, "published", <<>>)
    IN [id |-> DictGet(data, "id", ""),
        severity |-> RiskLevelOf(DictGet(data, "severity", RiskLevelValue("medium"))),
        title |-> DictGet(data, "title", ""),
        description |-> DictGet(data, "description", ""),
        affected_versions |-> DictGet(data, "affected_versions", "*"),
        fixed_version |-> DictGet(data, "fixed_version", <<>>),
        published |-> IF text # <<>> /\ text[1] # <<>> /\ ~FromIsoformatRaises(text[1])
                      THEN <<FromIsoformat(text[1])>> ELSE <<>>,
        references |-> DictGet(data, "references", <<>>),
        cvss_score |-> DictGet(data, "cvss_score", <<>>),
        is_fixed_in_installed_version |-> FALSE]

\* DependencyReport.to_dict: the package and the health of the report
ReportToDict(package, health, vs) ==
    [package |-> [name |-> package.name,
                  version |-> package.version,
                  extras |-> package.extras],
     health |-> [overall_num |-> health.overall_num,
                 overall_den |-> health.overall_den,
                 grade |-> HealthGradeValue(health.grade),
                 security_score |-> health.security_score,
                 maintenance_score |-> health.maintenance_score,
                 community_score |-> health.community_score,
                 popularity_score |-> health.popularity_score,
                 maintenance_status |-> health.maintenance_status,
                 vulnerabilities |->
                     [k \in 1..Len(vs) |->
                        [id |-> vs[k].id,
                         severity |-> RiskLevelValue(vs[k].severity),
                         title |-> vs[k].title,
                         fixed_version |-> vs[k].fixed_version]]]]

\* Vulnerabilities stored per package in one persistence run.
MaxStored == 2

DateSamples ==
    {<<>>,
     <<[year |-> 2024, month |-> 1, day |-> 15, hour |-> 0, minute |-> 0,
        second |-> 0, microsecond |-> 0, utcoffset |-> <<>>]>>,
     <<[year |-> 2023, month |-> 12, day |-> 31, hour |-> 23, minute |-> 59,
        second |-> 59, microsecond |-> 250, utcoffset |-> <<330>>]>>,
     <<[year |-> 2020, month |-> 2, day |-> 29, hour |-> 12, minute |-> 0,
        second |-> 0, microsecond |-> 0, utcoffset |-> <<-480>>]>>}

\* Vulnerabilities as the scanner builds them; cvss_score is in tenths.
StoredVulns ==
    {[id |-> i, severity |-> s, title |-> "title of " \o i, description |-> "",
      affected_versions |-> IF f = <<>> THEN "*" ELSE "<2.0",
      fixed_version |-> f, published |-> d,
      references |-> IF c = <<>> THEN <<>> ELSE <<"https://osv.dev/" \o i>>,
      cvss_score |-> c, is_fixed_in_installed_version |-> b] :
        i \in {"CVE-2024-0001", "GHSA-xxxx"}, s \in Severities,
        f \in {<<>>, <<"2.0">>}, d \in DateSamples, c \in {<<>>, <<98>>},
        b \in BOOLEAN}

StoredLists ==
    {<<>>} \cup {<<v>> : v \in StoredVulns}
    \cup {<<v, w>> : v \in {x \in StoredVulns : x.id = "CVE-2024-0001" /\ x.published = <<>>
                                                 /\ x.cvss_score = <<>> /\ x.fixed_version = <<>>},
                     w \in {x \in StoredVulns : x.id = "GHSA-xxxx" /\ x.published # <<>>
                                                 /\ x.cvss_score # <<>> /\ x.fixed_version # <<>>
                                                 /\ x.severity \in {"critical", "info"}}}

InitPersist ==
    /\ IdleResolver /\ pc = "report"
    /\ deps = <<PkgC>> /\ seen = <<>> /\ result = <<>>
    /\ weights = <<NormalizedWeights(<<>>)>> /\ pypi = <<>> /\ repo = <<>> /\ args = <<>>
    /\ vulns \in {l \in StoredLists : Len(l) <= MaxStored}
    /\ score = <<Calculate(NormalizedWeights(<<>>), <<>>, <<>>, vulns)>>
    /\ IdleIO

\* [v.to_dict() for v in vulnerabilities]: the list is written to the cache
ToDictCall ==
    /\ persisted = <<>> /\ reloaded = <<>>
    /\ persisted' = <<[k \in 1..Len(vulns) |-> VulnToDict(vulns[k])]>>
    /\ UNCHANGED <<deps, seen, result, pc, resolverVars, calcVars, callVars,
                   reloaded, exported, gathered, reports>>

\* [Vulnerability.from_dict(d) for d in cached]: the list is read back
FromDictCall ==
    /\ persisted # <<>> /\ reloaded = <<>>
    /\ \A k \in 1..Len(persisted[1]) : ~VulnFromDictRaises(persisted[1][k])
    /\ reloaded' = <<[k \in 1..Len(persisted[1]) |-> VulnFromDict(persisted[1][k])]>>
    /\ UNCHANGED <<deps, seen, result, pc, resolverVars, calcVars, callVars,
                   persisted, exported, gathered, reports>>

\* DependencyReport(package, health).to_dict()
ReportToDictCall ==
    /\ pc = "report"
    /\ exported' = <<ReportToDict(deps[1], score[1], vulns)>>
    /\ pc' = "exported"
    /\ UNCHANGED <<deps, seen, result, resolverVars, calcVars, callVars,
                   persisted, reloaded, gathered, reports>>

NextPersist ==
    \/ ToDictCall
    \/ FromDictCall
    \/ ReportToDictCall

SpecPersist == InitPersist /\ [][NextPersist]_vars

PersistedFields ==
    {"id", "severity", "title", "description", "affected_versions", "fixed_version",
     "published", "references", "cvss_score"}

\* C21: every reloaded vulnerability has the id, severity, title, description,
\* affected versions, fixed version, published date, references and CVSS score
\* of the one that was saved; no persisted dict has the key
\* is_fixed_in_installed_version and every reloaded vulnerability is open,
\* whatever the flag was; and the dict exported by DependencyReport.to_dict
\* carries the overall score, the grade's value and each vulnerability's id
\* and severity value of the report.
C21_RoundTrip ==
    /\ persisted # <<>> =>
          /\ Len(persisted[1]) = Len(vulns)
          /\ \A k \in 1..Len(vulns) :
                "is_fixed_in_installed_version" \notin DOMAIN persisted[1][k]
    /\ reloaded # <<>> =>
          /\ Len(reloaded[1]) = Len(vulns)
          /\ \A k \in 1..Len(vulns) :
                /\ \A f \in PersistedFields : reloaded[1][k][f] = vulns[k][f]
                /\ IsOpen(reloaded[1][k])
    /\ exported # <<>> =>
          LET h == exported[1].health IN
          /\ h.overall_num = score[1].overall_num
          /\ h.overall_den = score[1].overall_den
          /\ h.grade = HealthGradeValue(score[1].grade)
          /\ Len(h.vulnerabilities) = Len(vulns)
          /\ \A k \in 1..Len(vulns) :
                /\ h.vulnerabilities[k].id = vulns[k].id
                /\ h.vulnerabilities[k].severity = RiskLevelValue(vulns[k].severity)

\* A vulnerability that was marked fixed, with a fix, a zoned publication date
\* and a CVSS score, has been saved and reloaded, and the report exported.
C21_Witness ==
    /\ reloaded # <<>> /\ exported # <<>> /\ Len(vulns) = 2
    /\ vulns[2].is_fixed_in_installed_version
    /\ vulns[2].published # <<>> /\ vulns[2].published[1].utcoffset # <<>>
    /\ vulns[2].fixed_version # <<>>

(***************************************************************************)
(* Properties of resolve_file, resolve on a single file and of parse       *)
(* with include directives (under SpecResolve)                             *)
(***************************************************************************)

\* The registered parsers in priority order, and what each claims.
C22_Sources == <<"pyproject", "requirements">>

C22_CanParse(source, f) ==
    IF source = "pyproject" THEN f = PyProject
    ELSE f \in {Req, ReqDev, Missing, Outside}

C22_Claiming(f) == SelectSeq(C22_Sources, LAMBDA src : C22_CanParse(src, f))

\* The `-r` lines of a file whose target exists, in line order.
C29_Includes(f) ==
    LET incs == SelectSeq(fs[f].lines,
                          LAMBDA l : l.kind = "include" /\ l.path \in DOMAIN fs
                                     /\ fs[l.path].status # "absent")
    IN [k \in 1..Len(incs) |-> incs[k].path]

\* The requirement lines of a file, in line order.
C29_Own(f) ==
    LET reqs == SelectSeq(fs[f].lines, LAMBDA l : l.kind = "req")
    IN [k \in 1..Len(reqs) |-> reqs[k].pkg]

\* The list parse(f) is to return over an acyclic include graph of depth n or
\* less: the file's own identifiers, then those of each include in directive
\* order, an include that cannot be read giving none.
RECURSIVE C29_Expected(_, _)
RECURSIVE C29_ExpectedOfAll(_, _)
C29_Expected(f, n) ==
    IF n = 0 \/ fs[f].status # "ok" THEN <<>>
    ELSE C29_Own(f) \o C29_ExpectedOfAll(C29_Includes(f), n - 1)
C29_ExpectedOfAll(fls, n) ==
    IF fls = <<>> THEN <<>>
    ELSE C29_Expected(Head(fls), n) \o C29_ExpectedOfAll(Tail(fls), n)

C29_Depth == Cardinality(DOMAIN fs)

\* C22: resolve_file on a path no registered parser claims raises ParsingError
\* "No suitable parser found ..." and returns no list, and no parser runs; on
\* a claimed path only the first parser in priority order that claims it is
\* run, on that path, and what resolve_file returns is that parser's result.
C22_ResolveFile ==
    op = "resolve_file" =>
        IF C22_Claiming(target) = <<>>
        THEN /\ pc # "done" /\ pc # "loop" /\ parsed = <<>>
             /\ pc = "raised" =>
                  /\ exc = "ParsingError"
                  /\ msg = "No suitable parser found for this file type."
        ELSE /\ parsed \in {<<>>, <<[source |-> Head(C22_Claiming(target)), file |-> target]>>}
             /\ pc \in {"done", "raised"} => parsed # <<>>
             /\ pc = "raised" => msg # "No suitable parser found for this file type."
             /\ pc = "done" => result = C29_Expected(target, C29_Depth)

\* resolve_file on setup.py has raised.
C22_Witness ==
    /\ op = "resolve_file" /\ target = Unclaimed /\ pc = "raised"
    /\ exc = "ParsingError" /\ parsed = <<>>

\* C23: an include directive whose path leaves the project directory is
\* rejected: no call of parse goes on to the files of such a directive, the
\* file outside is never read and none of its identifiers reaches a result.
C23_IncludeContained ==
    /\ \A k \in 1..Len(stack) :
          /\ stack[k].file # Outside
          /\ Outside \notin Range(stack[k].included)
          /\ PkgD \notin Range(stack[k].packages)
    /\ PkgD \notin Range(deps)
    /\ PkgD \notin Range(result)

\* resolve is on one file of the project that exists.
C27_SingleFile == op = "resolve" /\ target # Dir /\ Exists(target)

\* C27: resolve on a single file runs no parser on any other file and only
\* the first parser that claims the file; when reading or parsing that file
\* raises ParsingError, resolve raises it and returns nothing; and no two
\* entries of the returned list have the same normalized_name.
C27_SingleFileResolve ==
    C27_SingleFile =>
        /\ \A k \in 1..Len(parsed) :
              /\ k = 1 /\ parsed[k].file = target
              /\ parsed[k].source = Head(C22_Claiming(target))
        /\ (C22_Claiming(target) # <<>> /\ fs[target].status \in {"unreadable", "malformed"}) =>
              /\ pc # "done"
              /\ files # <<>> \/ pc = "start"
              /\ pc = "raised" => exc = "ParsingError"
              /\ (pc = "loop" /\ parsed # <<>>) => exc = "ParsingError"
        /\ pc = "done" =>
              /\ \A i, j \in 1..Len(result) :
                    i # j => NormalizedName(result[i].name) # NormalizedName(result[j].name)
              /\ \A p \in Range(deps) :
                    \E k \in 1..Len(result) :
                        NormalizedName(result[k].name) = NormalizedName(p.name)

\* resolve on a malformed pyproject.toml has raised ParsingError.
C27_Witness ==
    /\ C27_SingleFile /\ target = PyProject /\ fs[target].status = "malformed"
    /\ pc = "raised" /\ exc = "ParsingError"
    /\ parsed = <<[source |-> "pyproject", file |-> PyProject]>>

\* parse is called on a readable requirements file whose includes do not loop.
C28_ParseOfReadable ==
    /\ op = "resolve_file" /\ target \in ReqFiles /\ fs[target].status = "ok"
    /\ ~CyclicIncludes

\* C28: an include whose file is missing, unreadable or cannot be decoded
\* never aborts the including parse: the call raises nothing and returns the
\* identifiers of the file's own lines and of its other includes.
C28_FailedIncludesSkipped ==
    C28_ParseOfReadable =>
        /\ pc # "raised"
        /\ pc = "done" =>
              \A p \in Range(C29_Expected(target, C29_Depth)) : p \in Range(result)

\* The call of parse on a requirements file has returned.
C29_Returned ==
    /\ target \in ReqFiles /\ pc = "done"

\* C29: the list parse returns is the file's own identifiers in line order,
\* followed by those of its includes in directive order, wherever the `-r`
\* lines stand; so in the list resolve deduplicates, the first entry with the
\* name of an own line is an own line.
C29_IncludeOrdering ==
    C29_Returned =>
        /\ op = "resolve_file" => result = C29_Expected(target, C29_Depth)
        /\ (op = "resolve" /\ Exists(target)) =>
              /\ deps = C29_Expected(target, C29_Depth)
              /\ \A k \in 1..Len(deps) :
                    (\E p \in Range(C29_Own(target)) :
                         NormalizedName(p.name) = NormalizedName(deps[k].name))
                    => \E j \in 1..Len(C29_Own(target)) :
                          /\ j <= k
                          /\ NormalizedName(deps[j].name) = NormalizedName(deps[k].name)

\* parse has returned for a file that starts with two include directives, the
\* second for a file with a requirement.
C29_Witness ==
    /\ C29_Returned /\ op = "resolve_file"
    /\ Len(C29_Includes(target)) = 2
    /\ C29_Includes(target)[1] # C29_Includes(target)[2]
    /\ C29_Own(C29_Includes(target)[2]) # <<>>
    /\ Len(result) >= 2

(***************************************************************************)
(* ReportGenerator.generate_reports / _generate_single_report              *)
(*                                                                         *)
(* The collaborators (cache, registry client, repository client, scanner)  *)
(* are inputs: each call either answers or raises.                         *)
(***************************************************************************)

\* Packages handed to generate_reports in one call.
MaxReportPkgs == 2

ReportPackages == {PkgA, PkgC}

PackageLists ==
    {l \in UNION {[1..n -> ReportPackages] : n \in 1..MaxReportPkgs} :
        \A i, j \in 1..Len(l) : i # j => l[i] # l[j]}

\* What the collaborators do during one call of _generate_single_report.
CollaboratorOutcomes ==
    [cache_read : {"miss", "error"},
     pypi : {"ok", "stats error", "none", "error"},
     repo : {"ok", "no github url", "error"},
     scan : {"ok", "error"},
     cache_write : {"ok", "error"}]

\* The version the registry reports as latest.
LatestVersion == "9.9"

\* generator.py 176-196: the metadata after the registry calls, <<>> for None
FetchedPypi(io) ==
    CASE io.pypi = "ok" ->
           <<[PypiDefault EXCEPT !.downloads_last_month = 5000, !.total_releases = 3,
                                 !.release_age = 29]>>
      [] io.pypi = "stats error" ->
           <<[PypiDefault EXCEPT !.total_releases = 3, !.release_age = 29]>>
      [] OTHER -> <<>>

\* generator.py 199-207: the repository metadata, <<>> for None
FetchedRepo(io) ==
    IF FetchedPypi(io) # <<>> /\ io.repo = "ok"
    THEN <<[RepoDefault EXCEPT !.contributors_count = 3, !.stars = 100]>>
    ELSE <<>>

\* generator.py 210-214: the vulnerabilities the scanner found
ScannedVulns(io) == IF io.scan = "ok" THEN <<OpenVuln("high")>> ELSE <<>>

\* generator.py 189-194: the package takes the registry's version when it has none
ReportedPackage(package, io) ==
    IF FetchedPypi(io) # <<>> /\ io.pypi = "ok" /\ package.version = None
    THEN [package EXCEPT !.version = LatestVersion]
    ELSE package

\* _generate_single_report: what the coroutine returns or raises.  The cache
\* read of lines 167-168 stands outside every try block.
GenerateSingle(package, use_cache, io) ==
    IF use_cache /\ io.cache_read = "error"
    THEN [kind |-> "exception", error |-> "CacheError",
          package |-> package, pypi |-> <<>>, repository |-> <<>>,
          vulnerabilities |-> <<>>, health |-> <<>>, cached |-> FALSE, io |-> io]
    ELSE [kind |-> "report", error |-> None,
          package |-> ReportedPackage(package, io),
          pypi |-> FetchedPypi(io),
          repository |-> FetchedRepo(io),
          vulnerabilities |-> ScannedVulns(io),
          health |-> <<Calculate(NormalizedWeights(<<>>), FetchedPypi(io), FetchedRepo(io),
                                 ScannedVulns(io))>>,
          cached |-> use_cache /\ io.cache_write = "ok",
          io |-> io]

InitReport ==
    /\ IdleResolver /\ pc = "gather"
    /\ deps \in PackageLists /\ seen = <<>> /\ result = <<>>
    /\ weights = <<NormalizedWeights(<<>>)>> /\ pypi = <<>> /\ repo = <<>> /\ vulns = <<>>
    /\ score = <<>>
    /\ args \in {<<[use_cache |-> b]>> : b \in BOOLEAN}
    /\ IdleIO

\* One task of asyncio.gather(*tasks, return_exceptions=True) finishes; gather
\* keeps the outcomes in the order of `packages`.
GenerateSingleReport ==
    /\ pc = "gather" /\ Len(gathered) < Len(deps)
    /\ \E io \in CollaboratorOutcomes :
          gathered' = Append(gathered,
                             GenerateSingle(deps[Len(gathered) + 1], args[1].use_cache, io))
    /\ UNCHANGED <<deps, seen, result, pc, resolverVars, calcVars, callVars,
                   persisted, reloaded, exported, reports>>

\* generate_reports, lines 136-145: the outcomes that are reports are returned
GenerateReportsReturn ==
    /\ pc = "gather" /\ Len(gathered) = Len(deps)
    /\ reports' = <<SelectSeq(gathered, LAMBDA o : o.kind = "report")>>
    /\ pc' = "reported"
    /\ UNCHANGED <<deps, seen, result, resolverVars, calcVars, callVars,
                   persisted, reloaded, exported, gathered>>

NextReport ==
    \/ GenerateSingleReport
    \/ GenerateReportsReturn

SpecReport == InitReport /\ [][NextReport]_vars

\* C24: _generate_single_report returns a report whatever collaborator fails:
\* a failed registry fetch leaves pypi and repository None, a failed
\* repository fetch leaves repository None, a failed scan leaves the
\* vulnerability list empty, a failed cache write or read changes nothing
\* else; and generate_reports returns one report per package, in order.
C24_ReportPerPackage ==
    /\ \A k \in 1..Len(gathered) :
          LET o == gathered[k] IN
          /\ o.kind = "report"
          /\ o.package.name = deps[k].name
          /\ o.health # <<>>
          /\ o.io.pypi \in {"none", "error"} => (o.pypi = <<>> /\ o.repository = <<>>)
          /\ o.io.pypi \in {"ok", "stats error"} => o.pypi # <<>>
          /\ o.io.repo # "ok" => o.repository = <<>>
          /\ o.io.scan = "error" => o.vulnerabilities = <<>>
          /\ o.io.cache_write = "error" => ~o.cached
    /\ reports # <<>> =>
          /\ Len(reports[1]) = Len(deps)
          /\ \A k \in 1..Len(deps) : reports[1][k].package.name = deps[k].name

(***************************************************************************)
(* PyProjectTomlSource.parse on a Poetry document                          *)
(*                                                                         *)
(* A table of [tool.poetry] is the sequence of its entries in file order   *)
(* (a TOML table has one entry per key); a specification is a string or an *)
(* inline table, the latter given by its version, its extras and the set   *)
(* of its other keys.                                                      *)
(***************************************************************************)

\* Entries of the main dependency table of one document.
MaxEntries == 2

StrSpec(text) == [kind |-> "str", version |-> <<text>>, extras |-> <<>>, keys |-> {}]
DictSpec(version, extras, keys) ==
    [kind |-> "dict", version |-> version, extras |-> extras, keys |-> keys]

PythonName == <<"p", "y", "t", "h", "o", "n">>
RequestsName == <<"r", "e", "q", "u", "e", "s", "t", "s">>

PoetryEntries ==
    {[name |-> PythonName, spec |-> StrSpec(<<"^", "3", ".", "9">>)],
     [name |-> <<"P", "y", "t", "h", "o", "n">>, spec |-> DictSpec(<<<<"^", "3", ".", "9">>>>, <<>>, {})],
     [name |-> RequestsName, spec |-> StrSpec(<<"2", ".", "3", "1", ".", "0">>)],
     [name |-> <<"f", "l", "a", "s", "k">>, spec |-> DictSpec(<<<<"^", "2", ".", "0">>>>, <<"async">>, {})],
     [name |-> <<"m", "y", "l", "i", "b">>, spec |-> DictSpec(<<<<"1", ".", "0">>>>, <<>>, {"git"})],
     [name |-> <<"l", "o", "c", "a", "l">>, spec |-> DictSpec(<<>>, <<>>, {"path", "develop"})],
     [name |-> <<"w", "h", "e", "e", "l">>, spec |-> DictSpec(<<>>, <<>>, {"url"})]}

\* The tables of n entries or fewer with pairwise different keys.
PoetryTables(pool, n) ==
    {t \in UNION {[1..k -> pool] : k \in 0..n} :
        \A i, j \in 1..Len(t) : i # j => t[i].name # t[j].name}

\* [tool.poetry.dependencies], [tool.poetry.dev-dependencies] and the
\* dependencies of [tool.poetry.group.test].
PoetryDocs ==
    [main : PoetryTables(PoetryEntries, MaxEntries),
     dev : PoetryTables(PoetryEntries, MaxEntries - 1),
     group : PoetryTables({e \in PoetryEntries :
                              e.name \in {PythonName, RequestsName} \/ e.spec.keys = {"url"}},
                          MaxEntries - 1)]

\* The number of digits s has from position i on.
RECURSIVE DigitRun(_, _)
DigitRun(s, i) ==
    IF i > Len(s) \/ ~IsDigit(s[i]) THEN 0 ELSE 1 + DigitRun(s, i + 1)

\* re.search(r"^(\d+\.\d+(?:\.\d+)?)", text): group 1 as <<match>>, or <<>>
ExactVersionMatch(text) ==
    LET a == DigitRun(text, 1)
        b == DigitRun(text, a + 2)
        c == DigitRun(text, a + b + 3)
    IN IF a = 0 \/ a + 1 > Len(text) \/ text[a + 1] # "." \/ b = 0 THEN <<>>
       ELSE IF a + b + 2 <= Len(text) /\ text[a + b + 2] = "." /\ c > 0
       THEN <<SubSeq(text, 1, a + b + 2 + c)>>
       ELSE <<SubSeq(text, 1, a + b + 1)>>

\* The version strings of the entries, as PackageIdentifier.version holds them.
VersionStr(chars) ==
    CASE chars = <<"2", ".", "3", "1", ".", "0">> -> "2.31.0"
      [] chars = <<"1", ".", "0">> -> "1.0"

\* _parse_poetry_dep(name, spec): <<PackageIdentifier>>, or <<>> for None
ParsePoetryDep(name, spec) ==
    LET m == IF spec.version # <<>> THEN ExactVersionMatch(spec.version[1]) ELSE <<>>
        version == IF m # <<>> THEN VersionStr(m[1]) ELSE None
    IN IF spec.kind = "dict" /\ spec.keys \cap {"git", "path", "url"} # {}
       THEN <<>>
       ELSE <<[name |-> name, version |-> version, extras |-> spec.extras]>>

\* The identifiers of the entries of one table, in order.
RECURSIVE ParsePoetryTable(_, _)
ParsePoetryTable(table, skipPython) ==
    IF table = <<>> THEN <<>>
    ELSE (IF skipPython /\ Lower(Head(table).name) = PythonName
          THEN <<>>
          ELSE ParsePoetryDep(Head(table).name, Head(table).spec))
         \o ParsePoetryTable(Tail(table), skipPython)

\* PyProjectTomlSource.parse, lines 204-233: `python` is skipped in the main
\* table alone.
ParsePoetry(doc) ==
    ParsePoetryTable(doc.main, TRUE)
    \o ParsePoetryTable(doc.dev, FALSE)
    \o ParsePoetryTable(doc.group, FALSE)

InitPoetry ==
    /\ IdleDedup /\ IdleResolver /\ IdleIO /\ pc = "parse"
    /\ weights = <<>> /\ pypi = <<>> /\ repo = <<>> /\ vulns = <<>> /\ score = <<>>
    /\ args \in {<<d>> : d \in PoetryDocs}

\* PyProjectTomlSource().parse(path) on the document
ParsePoetryCall ==
    /\ pc = "parse"
    /\ result' = ParsePoetry(args[1])
    /\ pc' = "parsed"
    /\ UNCHANGED <<deps, seen, resolverVars, weights, pypi, repo, vulns, score, args,
                   callVars, ioVars>>

NextPoetry == ParsePoetryCall

SpecPoetry == InitPoetry /\ [][NextPoetry]_vars

\* The entries of a table that are to yield an identifier: not `python` in
\* any letter case, and no git, path or url key.
C25_Eligible(table) ==
    SelectSeq(table, LAMBDA e : /\ Lower(e.name) # PythonName
                                /\ e.spec.keys \cap {"git", "path", "url"} = {})

\* C25: parse returns no identifier named `python` (in any case) from the
\* main, dev or group table, none for an entry with a git, path or url key,
\* and exactly one, with the entry's name, for every other entry, in order.
C25_PoetryExclusions ==
    pc = "parsed" =>
        LET entries == C25_Eligible(args[1].main) \o C25_Eligible(args[1].dev)
                       \o C25_Eligible(args[1].group)
        IN /\ \A k \in 1..Len(result) : Lower(result[k].name) # PythonName
           /\ Len(result) = Len(entries)
           /\ \A k \in 1..Len(entries) : result[k].name = entries[k].name

(***************************************************************************)
(* Properties of _identify_risks (under SpecSignals and SpecCalc)          *)
(***************************************************************************)

\* The place of a risk message in the order of the checks.
C26_Rank(text) ==
    CASE text = "OPEN critical vulnerability(ies)" -> 1
      [] text = "OPEN high severity vulnerability(ies)" -> 2
      [] text = "Repository is archived" -> 3
      [] text = "Package is deprecated" -> 4
      [] text \in {"No release in years", "No release in over a year"} -> 5
      [] text = "Single maintainer (bus factor risk)" -> 6
      [] text = "Many open issues with low resolution rate" -> 7
      [] text = "yanked release(s)" -> 8
      [] OTHER -> 0

\* The number of vulnerabilities of a severity that are not fixed in the
\* installed version.
C26_OpenCount(severity) ==
    Cardinality({k \in 1..Len(vulns) :
                    vulns[k].severity = severity
                    /\ ~vulns[k].is_fixed_in_installed_version})

C26_Has(fs_, text) == \E k \in 1..Len(fs_) : fs_[k].text = text

C26_NumberOf(fs_, text) == CHOOSE k \in 1..Len(fs_) : fs_[k].text = text

\* C26: the risk factors come in the order of the checks, each at most once;
\* the critical and the high factor are there exactly when an open
\* vulnerability of that severity exists and carry the count of the open ones
\* alone; and each other factor is there exactly when its condition on the
\* inputs holds, so the list is a function of the inputs.
C26_RiskFactors ==
    pc = "risks" =>
        LET f == score[1].risk_factors
            age == IF pypi # <<>> THEN pypi[1].release_age ELSE NoDate
        IN /\ \A k \in 1..Len(f) : C26_Rank(f[k].text) > 0
           /\ \A i, j \in 1..Len(f) : i < j => C26_Rank(f[i].text) < C26_Rank(f[j].text)
           /\ \A sev \in {"critical", "high"} :
                 LET text == IF sev = "critical" THEN "OPEN critical vulnerability(ies)"
                             ELSE "OPEN high severity vulnerability(ies)"
                 IN /\ C26_Has(f, text) <=> C26_OpenCount(sev) > 0
                    /\ C26_Has(f, text) =>
                          f[C26_NumberOf(f, text)].n = <<C26_OpenCount(sev)>>
           /\ C26_Has(f, "Repository is archived") <=> (repo # <<>> /\ repo[1].is_archived)
           /\ C26_Has(f, "Package is deprecated") <=> (pypi # <<>> /\ pypi[1].is_deprecated)
           /\ C26_Has(f, "No release in years") <=> (age # NoDate /\ age > 730)
           /\ C26_Has(f, "No release in over a year") <=>
                 (age # NoDate /\ age > 365 /\ age <= 730)
           /\ C26_Has(f, "Single maintainer (bus factor risk)") <=>
                 (repo # <<>> /\ repo[1].contributors_count = 1)
           /\ C26_Has(f, "Many open issues with low resolution rate") <=>
                 (repo # <<>> /\ repo[1].open_issues > 100
                  /\ repo[1].issue_close_rate_90d < 100)
           /\ C26_Has(f, "yanked release(s)") <=> (pypi # <<>> /\ pypi[1].yanked_releases > 0)

\* _identify_risks has returned for two open critical vulnerabilities and a
\* fixed high one, a package with yanked releases and a stale release, and a
\* repository with one contributor.
C26_Witness ==
    /\ pc = "risks"
    /\ C26_OpenCount("critical") = 2 /\ C26_OpenCount("high") = 0 /\ Len(vulns) = 3
    /\ pypi # <<>> /\ pypi[1].yanked_releases = 3 /\ pypi[1].release_age = 731
    /\ repo # <<>> /\ repo[1].contributors_count = 1 /\ repo[1].open_issues = 101
    /\ Len(score[1].risk_factors) = 4

\* C30: when calculate took the bus-factor penalty off the community score
\* (contributors_count <= 1, 0 included), the risk factors of the same
\* HealthScore hold the single-maintainer risk.
C30_BusFactorConsistency ==
    (Scored /\ repo # <<>> /\ repo[1].contributors_count <= 1) =>
        C26_Has(score[1].risk_factors, "Single maintainer (bus factor risk)")
====
